---- MODULE Spec2Model ----
(***************************************************************************)
(* Bridge operation engine of bit-fusion-sdk.                              *)
(*                                                                         *)
(* Part I  : SendMintTxService (bridge-canister/src/runtime/service/       *)
(*           mint_tx.rs): push_operation and the asynchronous run(), cut   *)
(*           at its await points so that runs and pushes interleave.       *)
(* Part II : the ICRC-2 minter task handlers (icrc2-minter/src/ops.rs)     *)
(*           over the operation store and the task scheduler, and the      *)
(*           Operation implementation of IcrcBridgeOp.                     *)
(* Part III: event collection of the EVM-to-EVM minter                     *)
(*           (evm-minter/src/tasks.rs).                                    *)
(* Part IV : the canister methods of the ICRC-2 minter                     *)
(*           (icrc2-minter/src/canister.rs) and its scheduler.             *)
(* Part V  : the EVM parameters of the bridge configuration, the refresh   *)
(*           that writes them and the transaction builds that read them    *)
(*           (ops.rs, mint_tx.rs, bridge-canister/src/bridge.rs).          *)
(***************************************************************************)
EXTENDS Integers, Sequences, FiniteSets, Bags, TLC

(***************************************************************************)
(* Bounds of the model.                                                    *)
(***************************************************************************)
\* operation ids known to the SignedMintOrderHandler
NumOps == 3
\* run() invocations that may be in flight at the same time
NumRuns == 2
\* transactions the EVM accepts from the batching service before it only rejects
MaxTx == 2
\* operations the operation store of the ICRC-2 minter holds
MaxStoreOps == 2
\* RemoveMintOrder tasks that wait in the scheduler at the same time
MaxMintedTasks == 1
\* logs of the bridge contract on the source chain of the EVM-to-EVM minter
NumLogs == 4
\* collect_evm_events executions that may be in flight at the same time
MaxCollects == 2
\* tasks the scheduler of the EVM-to-EVM minter holds
MaxEvmTasks == 3
\* PrepareMintOrder / RemoveMintOrder tasks of the EVM-to-EVM minter that wait
\* or are executed at the same time
MaxOrderTasks == 2
\* CollectEvmEvents tasks the task storage of the ICRC-2 minter holds
MaxCollectTasks == 2
\* failed executions counted for a task whose retry policy has no ceiling
MaxFailures == 1
\* burn_icrc2 calls that may be in flight at the same time
MaxBurnCalls == 2
\* burns the ICRC-2 ledger performs for the minter
MaxBurns == 2
\* highest nonce the EVM node answers
MaxNonce == 1
\* OperationContext::send_mint_transaction calls in flight at once
MaxCtxSends == 1
\* transactions the EVM accepts from OperationContext::send_mint_transaction
MaxContextTxs == 1

VARIABLES
    \* ---- Part I: SendMintTxService ----
    digest_of,        \* SignedOrders::digest, as a function of the batch
    orders_to_send,   \* HashMap<H256, MintOrderBatchInfo>
    runs,             \* bag of the run() invocations in flight: the await point each
                      \* is suspended at and the (digest, batch_info) clone it holds
    sent_txs,         \* transactions accepted by send_raw_transaction, in order
    mint_tx_sent,     \* bag of the handler.mint_tx_sent(op_id, order, tx_hash) calls of the last step
    returned,         \* what the last step returned to its caller, if it returned
    \* ---- Part II: ICRC-2 minter ----
    op_store,         \* operation store: entry n is the operation with nonce n
    tasks,            \* bag of the tasks that wait in the scheduler
    execs,            \* bag of the task executions suspended at an await point
    mint_txs,         \* mint transactions the EVM accepted from send_mint_transaction,
                      \* in order: the operation each was sent for
    ledger_calls,     \* bag of the successful icrc2::burn / icrc2::mint calls
    task_result,      \* what the task executed by the last step returned, if it returned
    \* ---- Part III: EVM-to-EVM minter ----
    evm_info,         \* chain_id and next_block of the bridge side; 0 is None
    evm_tasks,        \* bag of the tasks appended to the scheduler
    collects,         \* bag of the collect_evm_events executions suspended at an await point
    collect_result,   \* what the collect_evm_events step of the last step did, if any
    mint_orders,      \* MintOrders of the state: bag of the stored entries
    order_tasks,      \* bag of the PrepareMintOrder / RemoveMintOrder tasks that wait
    order_execs,      \* bag of the prepare_mint_order executions suspended at the
                      \* encode_and_sign await, with the mint order each built
    order_result,     \* what the mint order task executed by the last step returned
    \* ---- Part IV: the ICRC-2 minter canister ----
    settings,         \* Settings of the state: owner and evm_principal, and whether
                      \* init has run
    logger_filter,    \* the filter of the logger configuration
    nonce,            \* the counter behind State::next_nonce
    pending_tasks,    \* bag of the scheduler's tasks (TasksStorage, stable memory)
    heap,             \* what lives on the wasm heap only: whether the completion
                      \* callback is registered and whether the global timer is armed
    burn_calls,       \* bag of the burn_icrc2 calls suspended at an await point
    icrc2_burns,      \* number of burns the ICRC-2 ledger performed for the minter
    operation_ids,    \* the operation ids burn_icrc2 returned, in order
    call_result,      \* what the canister method or task of the last step returned
    \* ---- Part V: the EVM parameters of the bridge configuration ----
    evm_params,       \* Option<EvmParams> of the configuration: chain id, account
                      \* nonce and gas price; set is FALSE for None
    evm_chain,        \* what the EVM node answers to the Nonce and GasPrice queries
    submitted_txs,    \* the outbound transactions send_raw_transaction accepted, in
                      \* order: the path that built each and the nonce it carries
    ctx_sends,        \* number of OperationContext::send_mint_transaction calls
                      \* suspended at an await point
    ctx_result        \* what the OperationContext call of the last step returned

mint_tx_vars == <<digest_of, orders_to_send, runs, sent_txs, mint_tx_sent, returned>>
ops_vars == <<op_store, tasks, execs, mint_txs, ledger_calls, task_result>>
order_vars == <<mint_orders, order_tasks, order_execs, order_result>>
evm_vars == <<evm_info, evm_tasks, collects, collect_result, order_vars>>
can_vars ==
    <<settings, logger_filter, nonce, pending_tasks, heap, burn_calls, icrc2_burns,
      operation_ids, call_result>>
params_vars == <<evm_params, evm_chain, submitted_txs, ctx_sends, ctx_result>>
vars == <<mint_tx_vars, ops_vars, evm_vars, can_vars, params_vars>>

\* no event, no application of the Operation trait, and no task result
NoEvent == [recipient |-> "none", nonce |-> 0, token |-> "none", amount |-> 0]
NoProgress == [op |-> "none", complete |-> FALSE, next |-> "none"]
NoResult ==
    [fn |-> "none", op |-> 0, res |-> "none", event |-> NoEvent, retried |-> FALSE,
     cause |-> "none", progress |-> NoProgress]

\* the minter before any event was collected
OpsInit ==
    /\ op_store = <<>>
    /\ tasks = EmptyBag
    /\ execs = EmptyBag
    /\ mint_txs = <<>>
    /\ ledger_calls = EmptyBag
    /\ task_result = NoResult

\* no collect_evm_events step
NoCollect == [fn |-> "none", res |-> "none", from_block |-> 0, logs |-> <<>>]

\* no mint order task returned
NoId256 == [chain_id |-> 0, address |-> "none"]
NoOrderEvent ==
    [sender |-> "none", from_erc20 |-> "none", recipient_id |-> "none",
     sender_id |-> NoId256, from_token |-> NoId256, nonce |-> 0]
NoOrderTask == [kind |-> "none", event |-> NoOrderEvent, side |-> "none"]
NoOrderResult == [fn |-> "none", res |-> "none", task |-> NoOrderTask]

\* the EVM-to-EVM minter before its EVM state is initialized
EvmInit ==
    /\ evm_info = [chain_id |-> 0, next_block |-> 0]
    /\ evm_tasks = EmptyBag
    /\ collects = EmptyBag
    /\ collect_result = NoCollect
    /\ mint_orders = EmptyBag
    /\ order_tasks = EmptyBag
    /\ order_execs = EmptyBag
    /\ order_result = NoOrderResult

\* no task, no burn reason, no init data and no canister call
NoTask ==
    [kind |-> "none", operation_id |-> 0, retry_policy |-> "none", retries |-> 0,
     failures |-> 0]
NoReason == [amount |-> 0, recipient_address |-> "none", approve |-> "none"]
NoInitData == [owner |-> "none", evm_principal |-> "none"]
NoCall ==
    [fn |-> "none", caller |-> "none", principal |-> "none", init_data |-> NoInitData,
     reason |-> NoReason, res |-> "none", msg |-> "none", task |-> NoTask, log |-> {}]

\* the canister before init: State::default(), an empty task storage, no
\* callback and no timer
CanisterInit ==
    /\ settings = [installed |-> FALSE, owner |-> "none", evm_principal |-> "none"]
    /\ logger_filter = "none"
    /\ nonce = 0
    /\ pending_tasks = EmptyBag
    /\ heap = [on_completion_callback |-> FALSE, timer |-> FALSE]
    /\ burn_calls = EmptyBag
    /\ icrc2_burns = 0
    /\ operation_ids = <<>>
    /\ call_result = NoCall

\* the EVM parameters: None, and the ones the configuration holds once the EVM
\* info is initialized
NoEvmParams == [set |-> FALSE, chain_id |-> 0, nonce |-> 0, gas_price |-> 0]
InitialEvmParams == [set |-> TRUE, chain_id |-> 1, nonce |-> 0, gas_price |-> 1]
NoContextResult == [fn |-> "none", res |-> "none"]

\* the configuration with the given parameters, and an EVM on which the bridge
\* account has not sent a transaction yet
ConfigInit(params) ==
    /\ evm_params = params
    /\ evm_chain = [nonce |-> 0, gas_price |-> 1]
    /\ submitted_txs = <<>>
    /\ ctx_sends = 0
    /\ ctx_result = NoContextResult

\* config.get_evm_params(): Ok when the parameters are set
GetEvmParams(ok, err) == IF evm_params.set THEN ok ELSE err

\* an outbound transaction: the path that built it and its nonce
OutboundTx(path, tx_nonce) == [path |-> path, nonce |-> tx_nonce]

(***************************************************************************)
(* Part I.  Data of the batching service.                                  *)
(***************************************************************************)
OpIds == 1..NumOps

\* The handler's signed order of an operation: operations 1 and 2 contribute
\* orders 0 and 1 of batch 1, operations 3 and 4 those of batch 2, and so on.
BatchOfOp(op) == ((op - 1) \div 2) + 1
IdxOfOp(op) == (op - 1) % 2

Batches == {BatchOfOp(op) : op \in OpIds}
Digests == Batches

\* number of orders in a SignedOrders batch
BatchLen(b) == Cardinality({op \in OpIds : BatchOfOp(op) = b})

\* handler.get_signed_orders(op_id) when it answers Some(order)
GetSignedOrders(op) == [batch |-> BatchOfOp(op), idx |-> IdxOfOp(op)]

\* SignedOrder::new(batch, idx) is Some iff the index is inside the batch
SignedOrderNew(b, idx) == idx < BatchLen(b)

\* orders_batch.digest()
Digest(b) == digest_of[b]

\* What a step returned and logged: the function, the operation id of a push,
\* the result (Ok or the error), the warnings and errors logged, and for a run
\* that sent its transaction the related operations of its copy in hand.
NoReturn == [fn |-> "none", id |-> 0, res |-> "none", log |-> {}, in_hand |-> {}]
Ret(fn, id, res) == [fn |-> fn, id |-> id, res |-> res, log |-> {}, in_hand |-> {}]

(***************************************************************************)
(* push_operation                                                          *)
(***************************************************************************)
\* entry(digest).or_insert_with(..).related_operations.insert((op_id, order_idx))
PushInsertStale(orders, op, order) ==
    LET d == Digest(order.batch) IN
    [x \in DOMAIN orders \cup {d} |->
        IF x = d
        THEN [orders_batch |-> order.batch, related_operations |-> {<<op, order.idx>>}]
        ELSE orders[x]]

PushInsert(orders, op, order) ==
    LET d == Digest(order.batch) IN
    [x \in DOMAIN orders \cup {d} |->
        IF x = d
        THEN IF d \in DOMAIN orders
             THEN [orders[d] EXCEPT !.related_operations = @ \cup {<<op, order.idx>>}]
             ELSE [orders_batch |-> order.batch, related_operations |-> {<<op, order.idx>>}]
        ELSE orders[x]]

PushOperation(op) ==
    /\ \E found \in BOOLEAN :
        IF found
        THEN /\ orders_to_send' = PushInsert(orders_to_send, op, GetSignedOrders(op))
             /\ returned' = Ret("push_operation", op, "Ok")
        ELSE /\ orders_to_send' = orders_to_send
             /\ returned' = Ret("push_operation", op, "FailedToProgress")
    /\ mint_tx_sent' = EmptyBag
    /\ UNCHANGED <<digest_of, runs, sent_txs>>
    /\ UNCHANGED <<ops_vars, evm_vars, can_vars, params_vars>>

(***************************************************************************)
(* run(), one action per stretch of code between two await points          *)
(***************************************************************************)
\* a run() invocation suspended at an await point with its clone of the batch
InFlight(pc, d, info) ==
    [pc |-> pc, digest |-> d, orders_batch |-> info.orders_batch,
     related_operations |-> info.related_operations, tx_nonce |-> 0]

Resume(rec, pc, tx_nonce) ==
    (runs (-) SetToBag({rec})) (+) SetToBag({[rec EXCEPT !.pc = pc, !.tx_nonce = tx_nonce]})
Finish(rec) == runs (-) SetToBag({rec})

\* lines 37-51: select a batch, get the signer, call signer.get_address()
RunBegin ==
    /\ IF DOMAIN orders_to_send = {}
       THEN /\ returned' = Ret("run", 0, "Ok")
            /\ UNCHANGED runs
       ELSE \E d \in DOMAIN orders_to_send, signer \in {"ok", "err"} :
              IF signer = "ok"
              THEN /\ BagCardinality(runs) < NumRuns
                   /\ runs' = runs (+) SetToBag({InFlight("sign", d, orders_to_send[d])})
                   /\ returned' = NoReturn
              ELSE /\ returned' = Ret("run", 0, "Signer")
                   /\ UNCHANGED runs
    /\ mint_tx_sent' = EmptyBag
    /\ UNCHANGED <<digest_of, orders_to_send, sent_txs>>
    /\ UNCHANGED <<ops_vars, evm_vars, can_vars, params_vars>>

\* lines 51-78: get_address() resolves, the bridge contract and the EVM params
\* are read, the transaction is built with the nonce of the stored EVM params
\* (lines 61-69), sign_transaction() resolves and
\* send_raw_transaction() is called. Nothing the service owns is read or written
\* between the two awaits, so they are one step.
RunSignTx(rec) ==
    /\ rec.pc = "sign"
    /\ \E outcome \in {"GetAddress", "Initialization", GetEvmParams("ok", "EvmParams"), "SignTx"} :
        IF outcome = "ok"
        THEN /\ runs' = Resume(rec, "send", evm_params.nonce)
             /\ returned' = NoReturn
        ELSE /\ runs' = Finish(rec)
             /\ returned' = Ret("run", 0, outcome)
    /\ mint_tx_sent' = EmptyBag
    /\ UNCHANGED <<digest_of, orders_to_send, sent_txs>>
    /\ UNCHANGED <<ops_vars, evm_vars, can_vars, params_vars>>

\* line 82: orders_to_send.remove(&digest), reached only after a successful send
OrdersAfterSendClear(orders, d, sendOk) ==
    IF sendOk THEN <<>> ELSE orders

OrdersAfterSendEager(orders, d, sendOk) ==
    [x \in DOMAIN orders \ {d} |-> orders[x]]

OrdersAfterSend(orders, d, sendOk) ==
    IF sendOk THEN [x \in DOMAIN orders \ {d} |-> orders[x]] ELSE orders

\* lines 82-88: the removed entry, or the copy in hand when the entry is gone
SentBatchInfoInHand(orders, inHand) ==
    [orders_batch |-> inHand.orders_batch, related_operations |-> inHand.related_operations]

SentBatchInfo(orders, inHand) ==
    IF inHand.digest \in DOMAIN orders
    THEN orders[inHand.digest]
    ELSE [orders_batch |-> inHand.orders_batch, related_operations |-> inHand.related_operations]

\* lines 90-97: the mint_tx_sent calls of the fan-out; an index that
\* SignedOrder::new cannot resolve is skipped (continue)
NotifyCallsBreak(info, txHash) ==
    IF \A p \in info.related_operations : SignedOrderNew(info.orders_batch, p[2])
    THEN {[op |-> p[1], batch |-> info.orders_batch, idx |-> p[2], tx_hash |-> txHash] :
            p \in info.related_operations}
    ELSE {}

NotifyCallsFirstOnly(info, txHash) ==
    LET ok == {p \in info.related_operations : SignedOrderNew(info.orders_batch, p[2])} IN
    {[op |-> p[1], batch |-> info.orders_batch, idx |-> p[2], tx_hash |-> txHash] :
        p \in {q \in ok : \A o \in ok : q[1] <= o[1]}}

NotifyCalls(info, txHash) ==
    {[op |-> p[1], batch |-> info.orders_batch, idx |-> p[2], tx_hash |-> txHash] :
        p \in {q \in info.related_operations : SignedOrderNew(info.orders_batch, q[2])}}

\* lines 78-99: send_raw_transaction() resolves; on success the entry is removed
\* and every related operation is notified
RunSendTx(rec) ==
    /\ rec.pc = "send"
    /\ \E outcome \in {"ok", "EvmRequestFailed"} :
        IF outcome = "ok"
        THEN /\ Len(sent_txs) < MaxTx
             /\ LET txHash == Len(sent_txs) + 1
                    info == SentBatchInfo(orders_to_send, rec)
                IN /\ sent_txs' = Append(sent_txs,
                        [digest |-> rec.digest, orders_batch |-> rec.orders_batch,
                         tx_hash |-> txHash])
                   /\ submitted_txs' = Append(submitted_txs, OutboundTx("run", rec.tx_nonce))
                   /\ orders_to_send' = OrdersAfterSend(orders_to_send, rec.digest, TRUE)
                   /\ mint_tx_sent' = SetToBag(NotifyCalls(info, txHash))
                   /\ returned' = [Ret("run", 0, "Ok") EXCEPT
                        !.in_hand = rec.related_operations,
                        !.log = (IF rec.digest \in DOMAIN orders_to_send
                                 THEN {} ELSE {"Failed to remove signed mint orders"})
                                \cup
                                (IF \A p \in info.related_operations :
                                        SignedOrderNew(info.orders_batch, p[2])
                                 THEN {} ELSE {"Signed order idx not found in batch"})]
        ELSE /\ orders_to_send' = OrdersAfterSend(orders_to_send, rec.digest, FALSE)
             /\ returned' = Ret("run", 0, outcome)
             /\ mint_tx_sent' = EmptyBag
             /\ UNCHANGED <<sent_txs, submitted_txs>>
    /\ runs' = Finish(rec)
    /\ UNCHANGED digest_of
    /\ UNCHANGED <<evm_params, evm_chain, ctx_sends, ctx_result>>
    /\ UNCHANGED <<ops_vars, evm_vars, can_vars>>

(***************************************************************************)
(* Specifications of the batching service                                  *)
(***************************************************************************)
MintTxInitWith(dg) ==
    /\ digest_of = dg
    /\ orders_to_send = <<>>
    /\ runs = EmptyBag
    /\ sent_txs = <<>>
    /\ mint_tx_sent = EmptyBag
    /\ returned = NoReturn
    /\ OpsInit
    /\ EvmInit
    /\ CanisterInit

\* digests of distinct batches differ
Init == MintTxInitWith([b \in Batches |-> b]) /\ ConfigInit(InitialEvmParams)

\* the digests of all batches collide
InitCollide == MintTxInitWith([b \in Batches |-> 1]) /\ ConfigInit(InitialEvmParams)

Next ==
    \/ \E op \in OpIds : PushOperation(op)
    \/ RunBegin
    \/ \E rec \in BagToSet(runs) : RunSignTx(rec)
    \/ \E rec \in BagToSet(runs) : RunSendTx(rec)

Spec == Init /\ [][Next]_vars

\* a run() starts only when none is in flight
RunBeginAlone == runs = EmptyBag /\ RunBegin

NextOneRun ==
    \/ \E op \in OpIds : PushOperation(op)
    \/ RunBeginAlone
    \/ \E rec \in BagToSet(runs) : RunSignTx(rec)
    \/ \E rec \in BagToSet(runs) : RunSendTx(rec)

SpecCollide == InitCollide /\ [][NextOneRun]_vars

TypeOK ==
    /\ DOMAIN orders_to_send \subseteq Digests
    /\ BagCardinality(runs) <= NumRuns
    /\ \A rec \in BagToSet(runs) : rec.pc \in {"sign", "send"}
    /\ Len(sent_txs) <= MaxTx

(***************************************************************************)
(* Properties of the batching service                                      *)
(***************************************************************************)
\* number of transactions the EVM accepted for a digest
CountTx(d) == Cardinality({i \in 1..Len(sent_txs) : sent_txs[i].digest = d})

\* mint_tx_sent calls made by the step
NewCalls(c) == CopiesIn(c, mint_tx_sent')
Call(op, b, idx, h) == [op |-> op, batch |-> b, idx |-> idx, tx_hash |-> h]

\* the step in which the run rec returns Ok after its send_raw_transaction succeeded
RunSent(rec) ==
    /\ rec.pc = "send" /\ runs' = runs (-) SetToBag({rec})
    /\ returned'.fn = "run" /\ returned'.res = "Ok"

\* the step in which the run rec returns an error
RunFailed(rec) ==
    /\ runs' = runs (-) SetToBag({rec})
    /\ returned'.fn = "run" /\ returned'.res # "Ok"

\* C1: over any sequence of pushes and (possibly overlapping) runs, at most one
\* batch-mint transaction is ever submitted for a given batch digest.
C1_AtMostOneTxPerDigest == \A d \in Digests : CountTx(d) <= 1

\* C2: when two distinct operations are related to digest D and a run for D
\* succeeds, that run submits exactly one transaction, D leaves orders_to_send and
\* mint_tx_sent is called for both operations with that transaction's hash.
C2_TwoOpsOneTxSameHash ==
    [][\A rec \in BagToSet(runs) :
        LET d == rec.digest IN
        (/\ RunSent(rec)
         /\ d \in DOMAIN orders_to_send
         /\ \E p, q \in orders_to_send[d].related_operations : p[1] # q[1])
        => /\ Len(sent_txs') = Len(sent_txs) + 1
           /\ sent_txs'[Len(sent_txs')].digest = d
           /\ d \notin DOMAIN orders_to_send'
           /\ \A p \in orders_to_send[d].related_operations :
                NewCalls(Call(p[1], orders_to_send[d].orders_batch, p[2],
                              sent_txs'[Len(sent_txs')].tx_hash)) = 1]_vars

C2_Witness ==
    /\ returned.fn = "run" /\ returned.res = "Ok"
    /\ Digest(1) \notin DOMAIN orders_to_send
    /\ \E h \in 1..MaxTx :
        /\ BagIn(Call(1, 1, 0, h), mint_tx_sent)
        /\ BagIn(Call(2, 1, 1, h), mint_tx_sent)

C4_EveryRelatedPairNotifiedOnce ==
    [][\A rec \in BagToSet(runs) :
        LET d == rec.digest
            h == Len(sent_txs) + 1
        IN RunSent(rec)
           => /\ d \notin DOMAIN orders_to_send'
              /\ Len(sent_txs') = h /\ sent_txs'[h].tx_hash = h /\ sent_txs'[h].digest = d
              /\ d \in DOMAIN orders_to_send
                 => \A p \in orders_to_send[d].related_operations :
                        NewCalls(Call(p[1], orders_to_send[d].orders_batch, p[2], h)) = 1
              /\ \A c \in BagToSet(mint_tx_sent') :
                    NewCalls(c) > 0 => (c.tx_hash = h /\ NewCalls(c) = 1)]_vars

\* a pair pushed while the submission was awaited has been notified
C4_Witness ==
    /\ returned.fn = "run" /\ returned.res = "Ok"
    /\ returned.in_hand = {<<1, 0>>}
    /\ returned.log = {}
    /\ Len(sent_txs) = 1
    /\ BagIn(Call(1, 1, 0, 1), mint_tx_sent)
    /\ BagIn(Call(2, 1, 1, 1), mint_tx_sent)

\* C5: when the digest is gone from orders_to_send at the removal step, run()
\* returns Ok, notifies the operations of its copy in hand, and the batch is
\* never sent a second time.
C5_RemoveMissNeverSentTwice ==
    ("Failed to remove signed mint orders" \in returned.log)
    => /\ returned.res = "Ok"
       /\ \A p \in returned.in_hand :
            BagIn(Call(p[1], sent_txs[Len(sent_txs)].orders_batch, p[2],
                       sent_txs[Len(sent_txs)].tx_hash), mint_tx_sent)
       /\ CountTx(sent_txs[Len(sent_txs)].digest) <= 1

\* C6: in the fan-out of a run, a related operation whose order index cannot be
\* resolved in the sent batch is skipped, every other related operation is
\* notified once with the transaction hash, and run() returns Ok.
C6_UnresolvedIndexSkipped ==
    [][\A rec \in BagToSet(runs) :
       LET d == rec.digest
           h == Len(sent_txs) + 1
       IN (/\ RunSent(rec)
           /\ d \in DOMAIN orders_to_send
           /\ \E p \in orders_to_send[d].related_operations :
                ~SignedOrderNew(orders_to_send[d].orders_batch, p[2]))
          => /\ returned'.fn = "run" /\ returned'.res = "Ok"
             /\ \A p \in orders_to_send[d].related_operations :
                  NewCalls(Call(p[1], orders_to_send[d].orders_batch, p[2], h))
                    = IF SignedOrderNew(orders_to_send[d].orders_batch, p[2]) THEN 1 ELSE 0]_vars

C6_Witness ==
    /\ returned.fn = "run" /\ returned.res = "Ok"
    /\ "Signed order idx not found in batch" \in returned.log
    /\ \E c \in BagToSet(mint_tx_sent) : c.tx_hash = Len(sent_txs)

(***************************************************************************)
(* Part II.  ICRC-2 minter (icrc2-minter/src/ops.rs): the operation store, *)
(* the scheduler and the task handlers.  An asynchronous handler is one    *)
(* action per stretch of code between await points; executions of          *)
(* different tasks interleave at these points.                             *)
(***************************************************************************)
\* The data that events carry.  Operations are created for the holders and
\* the bridged tokens; a Minted event may name any address and any token, and
\* "bad" is a from_token that is not an Id256.
Holders == {"alice"}
Addresses == Holders \cup {"bob"}
BridgedTokens == {"t1"}
TokenIds == BridgedTokens \cup {"t2"}
BurnAmounts == {1}
Amounts == BurnAmounts \cup {2}

\* wrapped-token Burnt events: decode says whether to_token and recipient_id
\* decode into a principal, or which of them does not
BurntEvents ==
    [sender : Holders, token : BridgedTokens, amount : BurnAmounts,
     decode : {"ok", "to_token", "recipient_id"}]

\* Icrc2Burn payloads of minter notifications; fee_payer is TRUE for
\* Some(address) with a non-zero address, approve_after_mint is TRUE for
\* Some(ApproveAfterMint)
Icrc2Burns ==
    [recipient_address : Holders, token : BridgedTokens, amount : BurnAmounts,
     fee_payer : BOOLEAN, approve_after_mint : BOOLEAN]

\* minter notifications: the sender of the notifying transaction and the
\* user data
Notifications == [tx_sender : Addresses, user_data : Icrc2Burns]

\* the notifications whose user data asks for no approval
PlainNotifications ==
    {notification \in Notifications : ~notification.user_data.approve_after_mint}

\* Minted events
MintedEvents ==
    [recipient : Addresses, nonce : 1..MaxStoreOps, token : TokenIds \cup {"bad"},
     amount : Amounts]

\* OperationState: the family, the variant and the data the handlers use
State(family, stage, token, amount, fee_payer, tx_id, decode) ==
    [family |-> family, stage |-> stage, token |-> token, amount |-> amount,
     fee_payer |-> fee_payer, tx_id |-> tx_id, decode |-> decode,
     approve_after_mint |-> FALSE]

\* the state with the approval data of the burn, or of the signed order
WithApprove(state, approve_after_mint) ==
    [state EXCEPT !.approve_after_mint = approve_after_mint]

\* operation_store.get(id) = None
NoState == State("None", "None", "none", 0, FALSE, 0, "ok")

NewDeposit(icrc_burn) ==
    WithApprove(State("Deposit", "Scheduled", icrc_burn.token, icrc_burn.amount,
                      icrc_burn.fee_payer, 0, "ok"),
                icrc_burn.approve_after_mint)

NewWithdrawal(burnt) ==
    State("Withdrawal", "Scheduled", burnt.token, burnt.amount, FALSE, 0, burnt.decode)

\* the operation store
StoreGet(id) == IF id \in DOMAIN op_store THEN op_store[id].state ELSE NoState

StoreUpdate(id, state) ==
    IF id \in DOMAIN op_store THEN [op_store EXCEPT ![id].state = state] ELSE op_store

NewOperation(address, state) == Append(op_store, [address |-> address, state |-> state])

GetForAddress(address) == {n \in DOMAIN op_store : op_store[n].address = address}

\* the scheduler: a task with its options and whether an execution of it has
\* failed before, an execution suspended at an await point with the state its
\* handler read, and the result of an execution
Task(kind, op, event, policy) ==
    [kind |-> kind, op |-> op, event |-> event, policy |-> policy, retried |-> FALSE]

Exec(t, pc, st) == [task |-> t, pc |-> pc, snap |-> st, initial_params |-> NoEvmParams]

Result(fn, t, res) ==
    [fn |-> fn, op |-> t.op, res |-> res, event |-> t.event, retried |-> t.retried,
     cause |-> "none", progress |-> NoProgress]

\* the waiting tasks without the one that is executed; the second variant
\* leaves the executed task waiting
TakenKept(t) == tasks

Taken(t) == tasks (-) SetToBag({t})
Done(e) == execs (-) SetToBag({e})
Retried(t) == [t EXCEPT !.retried = TRUE]

\* whether a failed task is queued again: always under RetryPolicy::Infinite and
\* under max retries u32::MAX; TaskOptions::default() leaves it to the scheduler
RetryChoices(t) == IF t.policy = "default" THEN BOOLEAN ELSE {TRUE}

\* the handler fn returns res for task t because of cause; pending are the
\* other waiting tasks
ReturnCause(fn, t, res, cause, pending) ==
    /\ task_result' = [Result(fn, t, res) EXCEPT !.cause = cause]
    /\ IF res = "Ok"
       THEN tasks' = pending
       ELSE \E retry \in RetryChoices(t) :
              IF retry
              THEN tasks' = pending (+) SetToBag({Retried(t)})
              ELSE tasks' = pending

Return(fn, t, res, pending) == ReturnCause(fn, t, res, "none", pending)

\* lines 123-133, 211-227, 444-468, 542-552: the operation is missing or in a
\* state the handler does not expect; the handler logs it and returns Ok(()).
\* The second variant reports the incorrect state as an error.
IncorrectStateErr(fn, t) ==
    /\ Return(fn, t, "Err", Taken(t))
    /\ UNCHANGED execs

IncorrectState(fn, t) ==
    /\ Return(fn, t, "Ok", Taken(t))
    /\ UNCHANGED execs

(***************************************************************************)
(* task_by_log                                                             *)
(***************************************************************************)
TaskByLogBurnt(burnt) ==
    /\ Len(op_store) < MaxStoreOps
    /\ op_store' = NewOperation(burnt.sender, NewWithdrawal(burnt))
    /\ tasks' = tasks (+) SetToBag({Task("MintIcrc2Tokens", Len(op_store) + 1, NoEvent, "max")})
    /\ task_result' = NoResult
    /\ UNCHANGED <<execs, mint_txs, ledger_calls>>
    /\ UNCHANGED <<mint_tx_vars, evm_vars, can_vars, params_vars>>

\* number of RemoveMintOrder tasks that wait in the scheduler
MintedTasksWaiting ==
    LET waiting == {t \in BagToSet(tasks) : t.kind = "RemoveMintOrder"} IN
    BagCardinality([t \in waiting |-> CopiesIn(t, tasks)])

TaskByLogMinted(minted) ==
    /\ MintedTasksWaiting < MaxMintedTasks
    /\ tasks' = tasks (+) SetToBag({Task("RemoveMintOrder", 0, minted, "max")})
    /\ task_result' = NoResult
    /\ UNCHANGED <<op_store, execs, mint_txs, ledger_calls>>
    /\ UNCHANGED <<mint_tx_vars, evm_vars, can_vars, params_vars>>

\* lines 349-352: the approval is kept only if the burner owns the recipient
\* wallet; the second variant keeps what the notification holds
ApproveIfOwnerKept(notification) == notification.user_data

ApproveIfOwner(notification) ==
    IF notification.tx_sender # notification.user_data.recipient_address
    THEN [notification.user_data EXCEPT !.approve_after_mint = FALSE]
    ELSE notification.user_data

TaskByLogNotify(notification) ==
    /\ Len(op_store) < MaxStoreOps
    /\ LET icrc_burn == ApproveIfOwner(notification) IN
       op_store' = NewOperation(icrc_burn.recipient_address, NewDeposit(icrc_burn))
    /\ tasks' = tasks (+) SetToBag({Task("BurnIcrc2Tokens", Len(op_store) + 1, NoEvent, "max")})
    /\ task_result' = NoResult
    /\ UNCHANGED <<execs, mint_txs, ledger_calls>>
    /\ UNCHANGED <<mint_tx_vars, evm_vars, can_vars, params_vars>>

\* a notification whose user data is not an Icrc2Burn, or a log that is none
\* of the bridge events
TaskByLogNone ==
    /\ task_result' = NoResult
    /\ UNCHANGED <<op_store, tasks, execs, mint_txs, ledger_calls>>
    /\ UNCHANGED <<mint_tx_vars, evm_vars, can_vars, params_vars>>

(***************************************************************************)
(* burn_icrc2_tokens                                                       *)
(***************************************************************************)
\* lines 180-193: the state stored after the burn; the second variant leaves
\* the operation as it was read
Icrc2BurnedNotStored(reason) == reason

Icrc2Burned(reason) ==
    WithApprove(State("Deposit", "Icrc2Burned", reason.token, reason.amount,
                      reason.fee_payer, 0, "ok"),
                reason.approve_after_mint)

\* lines 117-143: read the state, then query the token info
BurnIcrc2TokensBegin(t) ==
    /\ t.kind = "BurnIcrc2Tokens"
    /\ LET st == StoreGet(t.op) IN
       IF st.family = "Deposit" /\ st.stage = "Scheduled"
       THEN /\ tasks' = Taken(t)
            /\ execs' = execs (+) SetToBag({Exec(t, "burn", st)})
            /\ task_result' = NoResult
       ELSE IncorrectState("burn_icrc2_tokens", t)
    /\ UNCHANGED <<op_store, mint_txs, ledger_calls>>
    /\ UNCHANGED <<mint_tx_vars, evm_vars, can_vars, params_vars>>

\* lines 142-204: the token info arrives, icrc2::burn is called and resolves
BurnIcrc2TokensBurn(e) ==
    /\ e.pc = "burn"
    /\ \E outcome \in {"ok", "token_info", "burn"} :
        IF outcome = "ok"
        THEN /\ ledger_calls' = ledger_calls (+) SetToBag({[call |-> "burn", op |-> e.task.op]})
             /\ op_store' = StoreUpdate(e.task.op, Icrc2Burned(e.snap))
             /\ Return("burn_icrc2_tokens", e.task, "Ok",
                       tasks (+) SetToBag({Task("CreateMintOrder", e.task.op, NoEvent, "infinite")}))
        ELSE /\ Return("burn_icrc2_tokens", e.task, "Err", tasks)
             /\ UNCHANGED <<op_store, ledger_calls>>
    /\ execs' = Done(e)
    /\ UNCHANGED mint_txs
    /\ UNCHANGED <<mint_tx_vars, evm_vars, can_vars, params_vars>>

(***************************************************************************)
(* prepare_mint_order and update_evm_params                                *)
(***************************************************************************)
\* lines 213-219: is_deposit
PrepareIsDepositAlways(st) == TRUE

PrepareIsDeposit(st) == st.family = "Deposit"

\* line 248
ShouldSendMintTxAlways(burnt_data) == TRUE

ShouldSendMintTx(burnt_data) == burnt_data.fee_payer

\* lines 250-298: the signed order has the approve_spender and approve_amount
\* of burnt_data.approve_after_mint
MintOrderSigned(burnt_data, is_deposit) ==
    WithApprove(
        IF is_deposit
        THEN State("Deposit", "MintOrderSigned", burnt_data.token, burnt_data.amount,
                   burnt_data.fee_payer, 0, "ok")
        ELSE State("Withdrawal", "RefundMintOrderSigned", burnt_data.token, burnt_data.amount,
                   burnt_data.fee_payer, 0, "ok"),
        burnt_data.approve_after_mint)

\* lines 206-278: read the state and the configuration, build the order, start signing
PrepareMintOrderBegin(t) ==
    /\ t.kind = "CreateMintOrder"
    /\ LET st == StoreGet(t.op) IN
       IF \/ st.family = "Deposit" /\ st.stage = "Icrc2Burned"
          \/ st.family = "Withdrawal" /\ st.stage = "RefundScheduled"
       THEN \E config \in {GetEvmParams("ok", "no_evm_params"), "no_signer"} :
              IF config = "ok"
              THEN /\ tasks' = Taken(t)
                   /\ execs' = execs (+) SetToBag({Exec(t, "sign", st)})
                   /\ task_result' = NoResult
              ELSE /\ Return("prepare_mint_order", t, "Err", Taken(t))
                   /\ UNCHANGED execs
       ELSE IncorrectState("prepare_mint_order", t)
    /\ UNCHANGED <<op_store, mint_txs, ledger_calls>>
    /\ UNCHANGED <<mint_tx_vars, evm_vars, can_vars, params_vars>>

\* lines 275-302 and 647-659: the signature arrives, the signed order is stored,
\* and with a fee payer update_evm_params starts: it reads the stored EVM
\* params as initial_params and asks the signer's address
PrepareMintOrderSigned(e) ==
    /\ e.pc = "sign"
    /\ \E outcome \in {"ok", "sign"} :
        IF outcome = "ok"
        THEN /\ op_store' = StoreUpdate(e.task.op, MintOrderSigned(e.snap, PrepareIsDeposit(e.snap)))
             /\ IF ShouldSendMintTx(e.snap)
                THEN \E config \in {GetEvmParams("ok", "no_evm_params"), "no_signer"} :
                       IF config = "ok"
                       THEN /\ execs' = Done(e) (+) SetToBag({[e EXCEPT
                                    !.pc = "update_evm_params", !.initial_params = evm_params]})
                            /\ task_result' = NoResult
                            /\ UNCHANGED tasks
                       ELSE /\ Return("prepare_mint_order", e.task, "Err", tasks)
                            /\ execs' = Done(e)
                ELSE /\ Return("prepare_mint_order", e.task, "Ok", tasks)
                     /\ execs' = Done(e)
        ELSE /\ Return("prepare_mint_order", e.task, "Err", tasks)
             /\ execs' = Done(e)
             /\ UNCHANGED op_store
    /\ UNCHANGED <<mint_txs, ledger_calls>>
    /\ UNCHANGED <<mint_tx_vars, evm_vars, can_vars, params_vars>>

\* lines 683-689: the parameters update_evm_params stores
UpdatedEvmParamsDefault(initial_params, nonce_value, gas_price) ==
    [NoEvmParams EXCEPT !.set = TRUE, !.nonce = nonce_value, !.gas_price = gas_price]

UpdatedEvmParams(initial_params, nonce_value, gas_price) ==
    [initial_params EXCEPT !.nonce = nonce_value, !.gas_price = gas_price]

\* lines 659-692 and 302-312: the address and the batch query resolve and the
\* EVM params are stored with the nonce and the gas price of the answer; then
\* the SendMintTransaction task is appended with TaskOptions::default()
PrepareMintOrderParams(e) ==
    /\ e.pc = "update_evm_params"
    /\ \E outcome \in {"ok", "get_address", "batch_query", "nonce", "gas_price"} :
        IF outcome = "ok"
        THEN /\ evm_params' = UpdatedEvmParams(e.initial_params, evm_chain.nonce,
                                               evm_chain.gas_price)
             /\ Return("prepare_mint_order", e.task, "Ok",
                    tasks (+) SetToBag({Task("SendMintTransaction", e.task.op, NoEvent, "default")}))
        ELSE /\ Return("prepare_mint_order", e.task, "Err", tasks)
             /\ UNCHANGED evm_params
    /\ execs' = Done(e)
    /\ UNCHANGED <<op_store, mint_txs, ledger_calls>>
    /\ UNCHANGED <<evm_chain, submitted_txs, ctx_sends, ctx_result>>
    /\ UNCHANGED <<mint_tx_vars, evm_vars, can_vars>>

(***************************************************************************)
(* send_mint_transaction                                                   *)
(***************************************************************************)
\* lines 509-529; the stale variant leaves the stored state as it was read
MintOrderSentStale(st, is_deposit, tx_id) == st

MintOrderSent(st, is_deposit, tx_id) ==
    WithApprove(
        IF is_deposit
        THEN State("Deposit", "MintOrderSent", st.token, st.amount, st.fee_payer, tx_id, "ok")
        ELSE State("Withdrawal", "RefundMintOrderSent", st.token, st.amount, st.fee_payer,
                   tx_id, "ok"),
        st.approve_after_mint)

\* lines 438-471: read the state, get the signer, ask its address
SendMintTransactionBegin(t) ==
    /\ t.kind = "SendMintTransaction"
    /\ LET st == StoreGet(t.op) IN
       IF \/ st.family = "Deposit" /\ st.stage = "MintOrderSigned"
          \/ st.family = "Withdrawal" /\ st.stage = "RefundMintOrderSigned"
       THEN \E config \in {"ok", "no_signer"} :
              IF config = "ok"
              THEN /\ tasks' = Taken(t)
                   /\ execs' = execs (+) SetToBag({Exec(t, "send", st)})
                   /\ task_result' = NoResult
              ELSE /\ Return("send_mint_transaction", t, "Err", Taken(t))
                   /\ UNCHANGED execs
       ELSE IncorrectState("send_mint_transaction", t)
    /\ UNCHANGED <<op_store, mint_txs, ledger_calls>>
    /\ UNCHANGED <<mint_tx_vars, evm_vars, can_vars, params_vars>>

\* lines 471-533: the address arrives, the transaction is built from the
\* configuration with the nonce of the stored EVM params (lines 478-492), signed
\* and sent; the EVM's answer is stored as tx_id
SendMintTransactionSend(e) ==
    /\ e.pc = "send"
    /\ \E outcome \in {"get_address", "no_bridge_contract",
                       GetEvmParams("ok", "no_evm_params"),
                       "sign_transaction", "send_raw_transaction"} :
        IF outcome = "ok"
        THEN /\ Len(mint_txs) < MaxStoreOps + 1
             /\ mint_txs' = Append(mint_txs, e.task.op)
             /\ submitted_txs' = Append(submitted_txs,
                    OutboundTx("send_mint_transaction", evm_params.nonce))
             /\ op_store' = StoreUpdate(e.task.op,
                    MintOrderSent(e.snap, e.snap.family = "Deposit", Len(mint_txs) + 1))
             /\ Return("send_mint_transaction", e.task, "Ok", tasks)
        ELSE /\ Return("send_mint_transaction", e.task, "Err", tasks)
             /\ UNCHANGED <<op_store, mint_txs, submitted_txs>>
    /\ execs' = Done(e)
    /\ UNCHANGED ledger_calls
    /\ UNCHANGED <<evm_params, evm_chain, ctx_sends, ctx_result>>
    /\ UNCHANGED <<mint_tx_vars, evm_vars, can_vars>>

(***************************************************************************)
(* mint_icrc2                                                              *)
(***************************************************************************)
\* lines 578-587
Transferred(burnt_event, tx_id) ==
    State("Withdrawal", "Transferred", burnt_event.token, burnt_event.amount, FALSE, tx_id, "ok")

\* lines 610-629: the refund data has fee_payer: None
RefundScheduled(burnt_event) ==
    State("Withdrawal", "RefundScheduled", burnt_event.token, burnt_event.amount, FALSE, 0, "ok")

\* lines 536-575: read the state, decode the token and the recipient, call icrc2::mint
MintIcrc2Begin(t) ==
    /\ t.kind = "MintIcrc2Tokens"
    /\ LET st == StoreGet(t.op) IN
       IF st.family = "Withdrawal" /\ st.stage = "Scheduled"
       THEN IF st.decode = "ok"
            THEN /\ tasks' = Taken(t)
                 /\ execs' = execs (+) SetToBag({Exec(t, "mint", st)})
                 /\ task_result' = NoResult
            ELSE /\ Return("mint_icrc2", t, "Err", Taken(t))
                 /\ UNCHANGED execs
       ELSE IncorrectState("mint_icrc2", t)
    /\ UNCHANGED <<op_store, mint_txs, ledger_calls>>
    /\ UNCHANGED <<mint_tx_vars, evm_vars, can_vars, params_vars>>

\* the errors of icrc2::mint: TransferFailed with a TransferError, or
\* CanisterError with a RejectionCode
LedgerErrors ==
    {"TooOld", "CreatedInFuture", "TemporarilyUnavailable", "GenericError", "SysTransient",
     "BadFee", "InsufficientFunds", "SysFatal"}

\* lines 592-598: the errors after which the mint is tried again; the second
\* variant leaves GenericError out
IsTransientExceptGeneric(err) ==
    err \in {"TooOld", "CreatedInFuture", "TemporarilyUnavailable", "SysTransient"}

IsTransient(err) ==
    err \in {"TooOld", "CreatedInFuture", "TemporarilyUnavailable", "GenericError",
             "SysTransient"}

\* lines 575-645: icrc2::mint resolves
MintIcrc2Mint(e) ==
    /\ e.pc = "mint"
    /\ \E mint_result \in {"Success"} \cup LedgerErrors :
        CASE mint_result = "Success" ->
               /\ ledger_calls' = ledger_calls (+) SetToBag({[call |-> "mint", op |-> e.task.op]})
               /\ op_store' = StoreUpdate(e.task.op,
                      Transferred(e.snap, BagCardinality(ledger_calls) + 1))
               /\ ReturnCause("mint_icrc2", e.task, "Ok", mint_result, tasks)
          [] mint_result # "Success" /\ IsTransient(mint_result) ->
               /\ ReturnCause("mint_icrc2", e.task, "Err", mint_result, tasks)
               /\ UNCHANGED <<op_store, ledger_calls>>
          [] mint_result # "Success" /\ ~IsTransient(mint_result) ->
               /\ op_store' = StoreUpdate(e.task.op, RefundScheduled(e.snap))
               /\ ReturnCause("mint_icrc2", e.task, "Ok", mint_result,
                         tasks (+) SetToBag({Task("CreateMintOrder", e.task.op, NoEvent, "infinite")}))
               /\ UNCHANGED ledger_calls
    /\ execs' = Done(e)
    /\ UNCHANGED mint_txs
    /\ UNCHANGED <<mint_tx_vars, evm_vars, can_vars, params_vars>>

(***************************************************************************)
(* remove_mint_order                                                       *)
(***************************************************************************)
\* lines 400 and 414: the amount of the Minted / RefundMinted state
MintedAmountStored(minted_event, st) == st.amount

MintedAmount(minted_event, st) == minted_event.amount

\* lines 396-418
Minted(st, minted_event) ==
    State(st.family, IF st.family = "Deposit" THEN "Minted" ELSE "RefundMinted",
          minted_event.token, MintedAmount(minted_event, st), FALSE, st.tx_id, "ok")

\* lines 379-382: the operation of the recipient with the nonce of the event
FindByNonce(minted_event) ==
    {n \in GetForAddress(minted_event.recipient) : n = minted_event.nonce}

\* lines 392-396 and 405-409: the guard `if token_id == src_token`
TokenMatchesAny(st, minted_event) == TRUE

TokenMatches(st, minted_event) == st.token = minted_event.token

\* lines 367-436
RemoveMintOrder(t) ==
    /\ t.kind = "RemoveMintOrder"
    /\ LET ev == t.event
           found == FindByNonce(ev)
       IN IF ev.token = "bad" \/ found = {}
          THEN /\ Return("remove_mint_order", t, "Err", Taken(t))
               /\ UNCHANGED op_store
          ELSE LET n == CHOOSE n \in found : TRUE
                   st == op_store[n].state
               IN IF /\ \/ st.family = "Deposit" /\ st.stage = "MintOrderSent"
                        \/ st.family = "Withdrawal" /\ st.stage = "RefundMintOrderSent"
                     /\ TokenMatches(st, ev)
                  THEN /\ op_store' = StoreUpdate(n, Minted(st, ev))
                       /\ Return("remove_mint_order", t, "Ok", Taken(t))
                  ELSE /\ Return("remove_mint_order", t, "Err", Taken(t))
                       /\ UNCHANGED op_store
    /\ UNCHANGED <<execs, mint_txs, ledger_calls>>
    /\ UNCHANGED <<mint_tx_vars, evm_vars, can_vars, params_vars>>

(***************************************************************************)
(* impl Operation for IcrcBridgeOp                                         *)
(***************************************************************************)
\* lines 23-44: the variants
IcrcBridgeOps ==
    {"BurnIcrc2Tokens", "SignMintOrder", "SendMintTransaction", "ConfirmMint",
     "WrappedTokenMintConfirmed", "MintIcrcTokens", "IcrcMintConfirmed"}

\* lines 76-86; the second variant also counts ConfirmMint as complete
IsCompleteOrConfirming(op) ==
    op \in {"ConfirmMint", "WrappedTokenMintConfirmed", "IcrcMintConfirmed"}

IsComplete(op) == op \in {"WrappedTokenMintConfirmed", "IcrcMintConfirmed"}

\* lines 47-74: what progress returns for a variant.  burn_icrc_tokens (lines
\* 695-772) returns an error of the token query or of the burn, or Ok(());
\* sign_mint_order, send_mint_tx and mint_icrc_tokens (lines 774-793) are todo!()
ProgressResults(op) ==
    CASE op = "BurnIcrc2Tokens" ->
            {[res |-> "Err", next |-> "none"], [res |-> "Ok", next |-> "unit"]}
      [] op \in {"SignMintOrder", "SendMintTransaction", "MintIcrcTokens"} ->
            {[res |-> "panic", next |-> "none"]}
      [] op \in {"ConfirmMint", "WrappedTokenMintConfirmed", "IcrcMintConfirmed"} ->
            {[res |-> "FailToProgress", next |-> "none"]}

\* is_complete and progress are applied to an operation that holds the variant op
ProgressOperation(op) ==
    /\ \E r \in ProgressResults(op) :
          task_result' = [NoResult EXCEPT !.fn = "progress", !.res = r.res,
                              !.progress = [op |-> op, complete |-> IsComplete(op),
                                            next |-> r.next]]
    /\ UNCHANGED <<op_store, tasks, execs, mint_txs, ledger_calls>>
    /\ UNCHANGED <<mint_tx_vars, evm_vars, can_vars, params_vars>>

(***************************************************************************)
(* Specification of the minter: events arrive, the scheduler executes      *)
(* waiting tasks and resumes suspended executions in any order             *)
(***************************************************************************)
NextOps ==
    \/ \E burnt \in BurntEvents : TaskByLogBurnt(burnt)
    \/ \E minted \in MintedEvents : TaskByLogMinted(minted)
    \/ \E notification \in PlainNotifications : TaskByLogNotify(notification)
    \/ TaskByLogNone
    \/ \E t \in BagToSet(tasks) : BurnIcrc2TokensBegin(t)
    \/ \E e \in BagToSet(execs) : BurnIcrc2TokensBurn(e)
    \/ \E t \in BagToSet(tasks) : PrepareMintOrderBegin(t)
    \/ \E e \in BagToSet(execs) : PrepareMintOrderSigned(e)
    \/ \E e \in BagToSet(execs) : PrepareMintOrderParams(e)
    \/ \E t \in BagToSet(tasks) : SendMintTransactionBegin(t)
    \/ \E e \in BagToSet(execs) : SendMintTransactionSend(e)
    \/ \E t \in BagToSet(tasks) : MintIcrc2Begin(t)
    \/ \E e \in BagToSet(execs) : MintIcrc2Mint(e)
    \/ \E t \in BagToSet(tasks) : RemoveMintOrder(t)

SpecOps == Init /\ [][NextOps]_vars

\* Fair scheduling: a waiting task is executed and a suspended execution is
\* resumed; signing and the RPC calls succeed eventually; and the Minted event
\* of an accepted mint transaction is delivered and handled.
MintedDelivered ==
    \E minted \in MintedEvents :
        /\ TaskByLogMinted(minted)
        /\ \E n \in FindByNonce(minted) :
              /\ op_store[n].state.stage \in {"MintOrderSent", "RefundMintOrderSent"}
              /\ op_store[n].state.token = minted.token

FairOps ==
    /\ WF_vars(\E t \in BagToSet(tasks) : BurnIcrc2TokensBegin(t))
    /\ SF_vars(\E e \in BagToSet(execs) : BurnIcrc2TokensBurn(e) /\ task_result'.res = "Ok")
    /\ SF_vars(\E t \in BagToSet(tasks) : PrepareMintOrderBegin(t) /\ task_result'.res # "Err")
    /\ SF_vars(\E e \in BagToSet(execs) : PrepareMintOrderSigned(e) /\ task_result'.res # "Err")
    /\ SF_vars(\E e \in BagToSet(execs) : PrepareMintOrderParams(e) /\ task_result'.res = "Ok")
    /\ SF_vars(\E t \in BagToSet(tasks) : SendMintTransactionBegin(t) /\ task_result'.res # "Err")
    /\ SF_vars(\E e \in BagToSet(execs) : SendMintTransactionSend(e) /\ task_result'.res = "Ok")
    /\ WF_vars(\E t \in BagToSet(tasks) : MintIcrc2Begin(t))
    /\ WF_vars(\E e \in BagToSet(execs) : MintIcrc2Mint(e))
    /\ SF_vars(MintedDelivered)
    /\ SF_vars(\E t \in BagToSet(tasks) : RemoveMintOrder(t) /\ task_result'.res = "Ok")

SpecOpsFair == SpecOps /\ FairOps

\* the minter together with the Operation trait applied to any variant
NextBridgeOp ==
    \/ NextOps
    \/ \E op \in IcrcBridgeOps : ProgressOperation(op)

SpecBridgeOp == Init /\ [][NextBridgeOp]_vars

(***************************************************************************)
(* Properties of the minter's task handlers                                *)
(***************************************************************************)
\* the handlers that advance an operation
AdvancingHandlers ==
    {"burn_icrc2_tokens", "prepare_mint_order", "send_mint_transaction", "mint_icrc2",
     "remove_mint_order"}

\* number of mint transactions the EVM accepted for operation n
CountMintTx(n) == Cardinality({i \in 1..Len(mint_txs) : mint_txs[i] = n})

\* the step in which the suspended execution e returns
Returns(e) == execs' = Done(e) /\ task_result'.op = e.task.op /\ task_result'.res # "none"

\* the step that executes remove_mint_order for the waiting task t
RemoveStep(t) ==
    /\ t.kind = "RemoveMintOrder"
    /\ task_result'.fn = "remove_mint_order"
    /\ task_result'.event = t.event

\* the operation of the recipient of a Minted event that has the nonce of the event
Matched(ev) ==
    {n \in DOMAIN op_store : n = ev.nonce /\ op_store[n].address = ev.recipient}

\* C7: whenever one of the handlers that advance an operation returns an error,
\* the stored state of the operation is the state the handler read when it
\* started, so that the retried task resumes from the previous variant.
C7_ErrorLeavesStoredStateIntact ==
    [][(task_result'.res = "Err" /\ task_result'.fn \in AdvancingHandlers) =>
          /\ execs' = execs => op_store' = op_store
          /\ \A e \in BagToSet(execs) :
                Returns(e) => op_store'[e.task.op].state = e.snap]_vars

C9_MintedRecordsEventAmountOnce ==
    [][/\ \A t \in BagToSet(tasks) : \A n \in Matched(t.event) :
            (/\ RemoveStep(t)
             /\ op_store[n].state.family = "Deposit"
             /\ op_store[n].state.stage = "MintOrderSent"
             /\ op_store[n].state.token = t.event.token)
            => /\ task_result'.res = "Ok"
               /\ op_store' = [op_store EXCEPT ![n].state =
                      State("Deposit", "Minted", t.event.token, t.event.amount, FALSE,
                            op_store[n].state.tx_id, "ok")]
       /\ \A n \in DOMAIN op_store :
            op_store[n].state.stage = "Minted" => op_store'[n] = op_store[n]]_vars

\* C9 witness: the Minted event that moved an operation to Minted with an
\* amount other than the burned one is delivered again and is refused.
C9_Witness ==
    /\ task_result.fn = "remove_mint_order"
    /\ task_result.res = "Err"
    /\ \E n \in Matched(task_result.event) :
        /\ op_store[n].state.stage = "Minted"
        /\ op_store[n].state.token = task_result.event.token
        /\ op_store[n].state.amount = task_result.event.amount
        /\ op_store[n].state.amount \notin BurnAmounts
        /\ CountMintTx(n) = 1
        /\ mint_txs[op_store[n].state.tx_id] = n

\* the order of the variants of each family
ForwardSteps ==
    {<<"Deposit", "Scheduled", "Icrc2Burned">>,
     <<"Deposit", "Icrc2Burned", "MintOrderSigned">>,
     <<"Deposit", "MintOrderSigned", "MintOrderSent">>,
     <<"Deposit", "MintOrderSent", "Minted">>,
     <<"Withdrawal", "Scheduled", "Transferred">>,
     <<"Withdrawal", "Scheduled", "RefundScheduled">>,
     <<"Withdrawal", "RefundScheduled", "RefundMintOrderSigned">>,
     <<"Withdrawal", "RefundMintOrderSigned", "RefundMintOrderSent">>,
     <<"Withdrawal", "RefundMintOrderSent", "RefundMinted">>}

\* C10: every change of a stored operation keeps its family and moves it one
\* step forward along the order of that family.
C10_UpdatesMoveOneStepForward ==
    [][\A n \in DOMAIN op_store :
          op_store'[n] # op_store[n] =>
              /\ op_store'[n].address = op_store[n].address
              /\ op_store'[n].state.family = op_store[n].state.family
              /\ <<op_store[n].state.family, op_store[n].state.stage,
                   op_store'[n].state.stage>> \in ForwardSteps]_vars

\* C10 witness: a deposit went all the way to Minted, after its burn and its
\* accepted transaction, and a withdrawal whose transfer failed for good has
\* its refund order signed.
C10_Witness ==
    /\ \E n \in DOMAIN op_store :
          /\ op_store[n].state.family = "Deposit"
          /\ op_store[n].state.stage = "Minted"
          /\ CountMintTx(n) = 1
          /\ BagIn([call |-> "burn", op |-> n], ledger_calls)
    /\ \E n \in DOMAIN op_store :
          /\ op_store[n].state.family = "Withdrawal"
          /\ op_store[n].state.stage = "RefundMintOrderSigned"

\* the variants and the stored states that end an operation
TerminalVariants == {"WrappedTokenMintConfirmed", "IcrcMintConfirmed"}
TerminalStages == {"Minted", "Transferred", "RefundMinted"}

\* C11: is_complete is true for WrappedTokenMintConfirmed and IcrcMintConfirmed
\* and false for every other variant; progress on these two and on ConfirmMint
\* returns FailToProgress and no variant; and no step changes a stored
\* operation that is in Minted, Transferred or RefundMinted.
C11_TerminalOperationsStay ==
    [][/\ task_result'.fn = "progress" =>
            LET p == task_result'.progress IN
            /\ p.complete <=> p.op \in TerminalVariants
            /\ (p.complete \/ p.op = "ConfirmMint") =>
                  /\ task_result'.res = "FailToProgress"
                  /\ p.next = "none"
       /\ \A n \in DOMAIN op_store :
            op_store[n].state.stage \in TerminalStages => op_store'[n] = op_store[n]]_vars

\* C11 witness: progress is refused for ConfirmMint, which is not complete,
\* while a deposit is in Minted and a withdrawal in Transferred.
C11_Witness ==
    /\ task_result.fn = "progress"
    /\ task_result.progress.op = "ConfirmMint"
    /\ ~task_result.progress.complete
    /\ task_result.res = "FailToProgress"
    /\ \E n \in DOMAIN op_store : op_store[n].state.stage = "Minted"
    /\ \E n \in DOMAIN op_store : op_store[n].state.stage = "Transferred"

\* C12: when icrc2::mint resolves for a withdrawal in Scheduled, TooOld,
\* CreatedInFuture, TemporarilyUnavailable, GenericError and a SysTransient
\* rejection make mint_icrc2 return an error with the stored state unchanged and
\* no task appended (the failed task itself waits for its retry); any other
\* error stores RefundScheduled, appends one CreateMintOrder task with an
\* infinite retry policy and returns Ok; a success stores Transferred, returns
\* Ok and appends no task.
C12_MintIcrc2Outcomes ==
    [][\A e \in BagToSet(execs) :
          (e.pc = "mint" /\ Returns(e)) =>
            LET n == e.task.op
                cause == task_result'.cause
                others == [op_store EXCEPT ![n] = op_store'[n]]
            IN
            /\ op_store[n].state.family = "Withdrawal"
            /\ op_store[n].state.stage = "Scheduled"
            /\ task_result'.fn = "mint_icrc2"
            /\ op_store' = others
            /\ cause \in {"TooOld", "CreatedInFuture", "TemporarilyUnavailable",
                           "GenericError", "SysTransient"} =>
                  /\ task_result'.res = "Err"
                  /\ op_store' = op_store
                  /\ tasks' = tasks (+) SetToBag({Retried(e.task)})
            /\ cause \in {"BadFee", "InsufficientFunds", "SysFatal"} =>
                  /\ task_result'.res = "Ok"
                  /\ op_store'[n].state.family = "Withdrawal"
                  /\ op_store'[n].state.stage = "RefundScheduled"
                  /\ tasks' = tasks (+) SetToBag({[kind |-> "CreateMintOrder", op |-> n,
                                                   event |-> NoEvent, policy |-> "infinite",
                                                   retried |-> FALSE]})
            /\ cause = "Success" =>
                  /\ task_result'.res = "Ok"
                  /\ op_store'[n].state.family = "Withdrawal"
                  /\ op_store'[n].state.stage = "Transferred"
                  /\ tasks' = tasks
            /\ cause \in {"Success"} \cup LedgerErrors]_vars

\* C12 witness: a mint that was tried again after a transient error fails for
\* good; the withdrawal is in RefundScheduled and its CreateMintOrder task waits.
C12_Witness ==
    /\ task_result.fn = "mint_icrc2"
    /\ task_result.retried
    /\ task_result.cause = "InsufficientFunds"
    /\ task_result.res = "Ok"
    /\ op_store[task_result.op].state.stage = "RefundScheduled"
    /\ \E t \in BagToSet(tasks) :
          t.kind = "CreateMintOrder" /\ t.op = task_result.op /\ t.policy = "infinite"

\* operation n is stored in the given stage
InStage(n, stage) == n \in DOMAIN op_store /\ op_store[n].state.stage = stage

\* C13: under fair scheduling, with signing and RPC calls that succeed
\* eventually and with the Minted event delivered, a withdrawal in
\* RefundScheduled eventually reaches RefundMinted.
C13_RefundReachesRefundMinted ==
    \A n \in 1..MaxStoreOps : InStage(n, "RefundScheduled") ~> InStage(n, "RefundMinted")

\* operation n is stored with a signed mint order that the bridge is to send
SignedWithFeePayer(n) ==
    /\ n \in DOMAIN op_store
    /\ op_store[n].state.stage \in {"MintOrderSigned", "RefundMintOrderSigned"}
    /\ op_store[n].state.fee_payer

\* C14: under fair scheduling, with signing and RPC calls that succeed
\* eventually, an operation whose mint order is signed and has a fee payer
\* eventually reaches MintOrderSent / RefundMintOrderSent, also when a step in
\* between failed and its task was executed again.
C14_SignedOrderIsSent ==
    \A n \in 1..MaxStoreOps :
        SignedWithFeePayer(n) ~>
            (InStage(n, "MintOrderSent") \/ InStage(n, "RefundMintOrderSent"))

\* the stored state a task of the given kind expects when it starts
Expects(kind, st) ==
    CASE kind = "BurnIcrc2Tokens" -> st.family = "Deposit" /\ st.stage = "Scheduled"
      [] kind = "MintIcrc2Tokens" -> st.family = "Withdrawal" /\ st.stage = "Scheduled"
      [] kind = "CreateMintOrder" ->
            \/ st.family = "Deposit" /\ st.stage = "Icrc2Burned"
            \/ st.family = "Withdrawal" /\ st.stage = "RefundScheduled"
      [] kind = "SendMintTransaction" ->
            \/ st.family = "Deposit" /\ st.stage = "MintOrderSigned"
            \/ st.family = "Withdrawal" /\ st.stage = "RefundMintOrderSigned"
      [] OTHER -> TRUE

\* a task of the given kind for operation n waits or is being executed
Live(kind, n) ==
    \/ \E t \in BagToSet(tasks) : t.kind = kind /\ t.op = n
    \/ \E e \in BagToSet(execs) : e.task.kind = kind /\ e.task.op = n

\* C15: whenever a follow-up task (CreateMintOrder, SendMintTransaction) waits,
\* the store holds the state that task expects; no transition is lost: an
\* operation in Icrc2Burned or RefundScheduled has its CreateMintOrder task,
\* and one with a signed order and a fee payer has its SendMintTransaction task
\* unless the handler that stored the state is still running; and none is
\* applied twice: each operation has at most one burn and one mint transaction.
C15_WriteThenSchedule ==
    /\ \A t \in BagToSet(tasks) :
          t.kind \in {"CreateMintOrder", "SendMintTransaction"} =>
              Expects(t.kind, StoreGet(t.op))
    /\ \A n \in DOMAIN op_store :
          /\ op_store[n].state.stage \in {"Icrc2Burned", "RefundScheduled"} =>
                Live("CreateMintOrder", n)
          /\ SignedWithFeePayer(n) =>
                \/ Live("SendMintTransaction", n)
                \/ \E e \in BagToSet(execs) : e.task.op = n /\ e.pc = "update_evm_params"
          /\ CountMintTx(n) <= 1
          /\ CopiesIn([call |-> "burn", op |-> n], ledger_calls) <= 1

\* number of tasks with an operation id that wait or are executed for operation n
LiveTasks(n) ==
    LET waiting == {t \in BagToSet(tasks) : t.op = n}
        running == {e \in BagToSet(execs) : e.task.op = n}
    IN BagCardinality([t \in waiting |-> CopiesIn(t, tasks)])
         + BagCardinality([e \in running |-> CopiesIn(e, execs)])

\* C16: for every operation at most one task that carries its id waits or is
\* executed, and while an execution is suspended at an await point the stored
\* state of its operation is the one that execution read or wrote itself.
C16_OneTaskPerOperation ==
    /\ \A n \in DOMAIN op_store : LiveTasks(n) <= 1
    /\ \A e \in BagToSet(execs) :
          /\ e.task.op \in DOMAIN op_store
          /\ IF e.pc = "update_evm_params"
             THEN StoreGet(e.task.op).stage \in {"MintOrderSigned", "RefundMintOrderSigned"}
             ELSE StoreGet(e.task.op) = e.snap

\* C16 witness: executions of the tasks of two operations are suspended at
\* await points at the same time, one of a task that failed before, while a
\* Minted event with the nonce of one of them waits to be handled.
C16_Witness ==
    /\ \E e1, e2 \in BagToSet(execs) :
          /\ e1.task.op # e2.task.op
          /\ e1.task.retried
          /\ e1.pc = "send"
    /\ \E t \in BagToSet(tasks) :
          /\ t.kind = "RemoveMintOrder"
          /\ \E e \in BagToSet(execs) : e.task.op = t.event.nonce
    /\ \A n \in DOMAIN op_store : LiveTasks(n) = 1

(***************************************************************************)
(* Part III.  Event collection of the EVM-to-EVM minter                    *)
(* (evm-minter/src/tasks.rs).  A CollectEvmEvents task reads next_block,   *)
(* awaits get_logs, moves next_block and appends a task per decoded log.   *)
(* Executions interleave at the await points.                              *)
(***************************************************************************)
\* The logs of the bridge contract, in the order of the chain.  A log is in
\* the block BlockOf(id) once that block is final; some blocks hold two logs.
LogIds == 1..NumLogs
BlockOf(id) == (id \div 2) + 1
Blocks == {BlockOf(id) : id \in LogIds}
ChainId == 1

\* whether BurntEventData::try_from and MintedEventData::try_from accept the
\* raw log: log 1 is a Burnt event, log 2 a Minted event, log 3 neither, and
\* log 4 is accepted by both
DecodesBurnt(id) == id % 4 \in {1, 0}
DecodesMinted(id) == id % 4 \in {2, 0}

\* a log as get_logs returns it; block_number 0 is None
Log(id, final) == [id |-> id, block_number |-> IF final THEN BlockOf(id) ELSE 0]

RECURSIVE LogsFrom(_, _)
LogsFrom(present, id) ==
    IF id > NumLogs
    THEN <<>>
    ELSE (IF present[id] = "absent"
          THEN <<>>
          ELSE <<Log(id, present[id] = "final")>>) \o LogsFrom(present, id + 1)

\* the answers get_logs may give to a query from from_block: any of the logs in
\* chain order, each with its block number if its block is final and at or
\* after from_block, or without one
GetLogs(from_block) ==
    {LogsFrom(present, 1) :
        present \in {f \in [LogIds -> {"absent", "pending", "final"}] :
                        \A id \in LogIds : f[id] = "final" => BlockOf(id) >= from_block}}

\* line 177: logs.iter().take_while(|l| l.block_number.is_some()); the second
\* variant keeps every log that has a block number
RECURSIVE WithBlockNumber(_)
WithBlockNumber(logs) ==
    IF logs = <<>>
    THEN <<>>
    ELSE (IF Head(logs).block_number # 0 THEN <<Head(logs)>> ELSE <<>>)
            \o WithBlockNumber(Tail(logs))

RECURSIVE TakeWhileBlockNumber(_)
TakeWhileBlockNumber(logs) ==
    IF logs = <<>> \/ Head(logs).block_number = 0
    THEN <<>>
    ELSE <<Head(logs)>> \o TakeWhileBlockNumber(Tail(logs))

\* lines 177-182
NextBlockAfter(logs, next_block) ==
    LET finalized == TakeWhileBlockNumber(logs) IN
    IF finalized = <<>>
    THEN next_block
    ELSE finalized[Len(finalized)].block_number + 1

\* lines 273-308: the task of a log, as a bag of no or one task; the second
\* variant tries the Minted decoding first
EvmTask(kind, id) == [kind |-> kind, log |-> id]

TaskByLogMintedFirst(log) ==
    IF DecodesMinted(log.id)
    THEN SetToBag({EvmTask("RemoveMintOrder", log.id)})
    ELSE IF DecodesBurnt(log.id)
         THEN SetToBag({EvmTask("PrepareMintOrder", log.id)})
         ELSE EmptyBag

TaskByLog(log) ==
    IF DecodesBurnt(log.id)
    THEN SetToBag({EvmTask("PrepareMintOrder", log.id)})
    ELSE IF DecodesMinted(log.id)
         THEN SetToBag({EvmTask("RemoveMintOrder", log.id)})
         ELSE EmptyBag

\* lines 186-190: logs.into_iter().filter_map(task_by_log).collect()
RECURSIVE TasksByLogs(_)
TasksByLogs(logs) ==
    IF logs = <<>> THEN EmptyBag ELSE TaskByLog(Head(logs)) (+) TasksByLogs(Tail(logs))

\* an execution suspended at an await point
Collect(pc, from_block) == [pc |-> pc, from_block |-> from_block]
CollectResult(fn, res, from_block, logs) ==
    [fn |-> fn, res |-> res, from_block |-> from_block, logs |-> logs]

\* get_initialized_evm_info
Initialized == evm_info.chain_id # 0 /\ evm_info.next_block # 0

\* lines 137-163 and 59-123: a CollectEvmEvents task starts.  With initialized
\* EVM info it sends the get_logs query from next_block; otherwise it runs
\* init_evm_state, which asks for the chain id or the block number it lacks
CollectBegin ==
    /\ BagCardinality(collects) < MaxCollects
    /\ collects' = collects (+) SetToBag({
            IF Initialized THEN Collect("get_logs", evm_info.next_block)
            ELSE IF evm_info.chain_id = 0 THEN Collect("get_chain_id", 0)
            ELSE Collect("get_block_number", 0)})
    /\ collect_result' = NoCollect
    /\ UNCHANGED <<evm_info, evm_tasks>>
    /\ UNCHANGED order_vars
    /\ UNCHANGED <<mint_tx_vars, ops_vars, can_vars, params_vars>>

\* lines 90-123: get_chain_id resolves; the chain id is set and
\* init_evm_next_block starts
InitEvmChainId(e) ==
    /\ e.pc = "get_chain_id"
    /\ \E ok \in BOOLEAN :
        IF ok
        THEN /\ evm_info' = [evm_info EXCEPT !.chain_id = ChainId]
             /\ IF evm_info.next_block # 0
                THEN /\ collects' = collects (-) SetToBag({e})
                     /\ collect_result' = CollectResult("init_evm_state", "Ok", 0, <<>>)
                ELSE /\ collects' = (collects (-) SetToBag({e}))
                                      (+) SetToBag({Collect("get_block_number", 0)})
                     /\ collect_result' = NoCollect
        ELSE /\ collects' = collects (-) SetToBag({e})
             /\ collect_result' = CollectResult("init_evm_state", "Err", 0, <<>>)
             /\ UNCHANGED evm_info
    /\ UNCHANGED evm_tasks
    /\ UNCHANGED order_vars
    /\ UNCHANGED <<mint_tx_vars, ops_vars, can_vars, params_vars>>

\* lines 125-135: get_block_number resolves
InitEvmNextBlock(e) ==
    /\ e.pc = "get_block_number"
    /\ \E ok \in BOOLEAN :
        IF ok
        THEN /\ \E block \in Blocks : evm_info' = [evm_info EXCEPT !.next_block = block]
             /\ collect_result' = CollectResult("init_evm_state", "Ok", 0, <<>>)
        ELSE /\ collect_result' = CollectResult("init_evm_state", "Err", 0, <<>>)
             /\ UNCHANGED evm_info
    /\ collects' = collects (-) SetToBag({e})
    /\ UNCHANGED evm_tasks
    /\ UNCHANGED order_vars
    /\ UNCHANGED <<mint_tx_vars, ops_vars, can_vars, params_vars>>

\* lines 163-193: get_logs resolves
CollectEvmEvents(e) ==
    /\ e.pc = "get_logs"
    /\ \/ /\ collect_result' = CollectResult("collect_evm_events", "Err", e.from_block, <<>>)
          /\ UNCHANGED <<evm_info, evm_tasks>>
       \/ \E logs \in GetLogs(e.from_block) :
            /\ BagCardinality(evm_tasks (+) TasksByLogs(logs)) <= MaxEvmTasks
            /\ evm_info' = [evm_info EXCEPT
                                !.next_block = NextBlockAfter(logs, evm_info.next_block)]
            /\ evm_tasks' = evm_tasks (+) TasksByLogs(logs)
            /\ collect_result' = CollectResult("collect_evm_events", "Ok", e.from_block, logs)
    /\ collects' = collects (-) SetToBag({e})
    /\ UNCHANGED order_vars
    /\ UNCHANGED <<mint_tx_vars, ops_vars, can_vars, params_vars>>

NextEvm ==
    \/ CollectBegin
    \/ \E e \in BagToSet(collects) : InitEvmChainId(e)
    \/ \E e \in BagToSet(collects) : InitEvmNextBlock(e)
    \/ \E e \in BagToSet(collects) : CollectEvmEvents(e)

SpecEvm == Init /\ [][NextEvm]_vars

(***************************************************************************)
(* Properties of the event collection                                      *)
(***************************************************************************)
\* the step is a collect_evm_events execution whose get_logs query was answered
Collected == collect_result'.fn = "collect_evm_events" /\ collect_result'.res = "Ok"

\* number of logs at the head of the answer that have a block number
LeadingFinal(logs) ==
    CHOOSE k \in 0..Len(logs) :
        /\ \A i \in 1..k : logs[i].block_number # 0
        /\ k < Len(logs) => logs[k + 1].block_number = 0

\* C17: after a poll, next_block is the block number of the last log of the
\* leading run of logs with a block number, plus one; it is unchanged when
\* the first log has no block number or no log was returned.
C17_NextBlockStopsAtUnconfirmedLog ==
    [][Collected =>
          LET logs == collect_result'.logs
              k == LeadingFinal(logs)
          IN /\ k = 0 => evm_info'.next_block = evm_info.next_block
             /\ k > 0 => evm_info'.next_block = logs[k].block_number + 1
             /\ evm_info'.chain_id = evm_info.chain_id]_vars

\* C17 witness: the answer is a log with a block number, then one without, then
\* one with a higher block number; next_block is the block after the first.
C17_Witness ==
    /\ collect_result.fn = "collect_evm_events"
    /\ collect_result.res = "Ok"
    /\ Len(collect_result.logs) = 3
    /\ collect_result.logs[1].block_number # 0
    /\ collect_result.logs[2].block_number = 0
    /\ collect_result.logs[3].block_number > collect_result.logs[1].block_number
    /\ evm_info.next_block = collect_result.logs[1].block_number + 1

\* the positions of the returned logs that have a block number
Finalized(logs) == {i \in 1..Len(logs) : logs[i].block_number # 0}

\* C18: a poll appends tasks only for returned logs that have a block number,
\* and moves next_block to the highest block number among these logs plus one.
C18_OnlyFinalizedLogsActedUpon ==
    [][Collected =>
          LET logs == collect_result'.logs IN
          /\ \A t \in BagToSet(evm_tasks') :
                CopiesIn(t, evm_tasks') > CopiesIn(t, evm_tasks) =>
                    \E i \in Finalized(logs) : logs[i].id = t.log
          /\ Finalized(logs) # {} =>
                \E i \in Finalized(logs) :
                    /\ evm_info'.next_block = logs[i].block_number + 1
                    /\ \A j \in Finalized(logs) :
                          logs[j].block_number <= logs[i].block_number]_vars

\* number of tasks appended for the log id
TasksOfLog(id) ==
    CopiesIn(EvmTask("PrepareMintOrder", id), evm_tasks)
        + CopiesIn(EvmTask("RemoveMintOrder", id), evm_tasks)

\* C19: over any sequence of polls, no log yields more than one task.
C19_EachLogYieldsOneTask == \A id \in LogIds : TasksOfLog(id) <= 1

\* C20: a poll appends, for each returned log, one PrepareMintOrder task if the
\* log decodes as Burnt, otherwise one RemoveMintOrder task if it decodes as
\* Minted, otherwise nothing, and nothing else; it returns Ok whatever the
\* logs decode as.
C20_OneTaskPerClassifiedLog ==
    [][collect_result'.fn = "collect_evm_events" =>
          LET logs == collect_result'.logs
              returned_ids == {logs[i].id : i \in 1..Len(logs)}
              Appended(kind, id) ==
                  CopiesIn(EvmTask(kind, id), evm_tasks')
                      - CopiesIn(EvmTask(kind, id), evm_tasks)
          IN /\ logs # <<>> => collect_result'.res = "Ok"
             /\ \A id \in LogIds :
                   /\ Appended("PrepareMintOrder", id) =
                         IF id \in returned_ids /\ DecodesBurnt(id) THEN 1 ELSE 0
                   /\ Appended("RemoveMintOrder", id) =
                         IF id \in returned_ids /\ ~DecodesBurnt(id) /\ DecodesMinted(id)
                         THEN 1 ELSE 0
             /\ \A t \in BagToSet(evm_tasks') :
                   t.kind \in {"PrepareMintOrder", "RemoveMintOrder"} /\ t.log \in LogIds]_vars

\* C20 witness: a poll returned a log that decodes as neither event followed by
\* one that decodes as both; the first gave no task, the second a
\* PrepareMintOrder task only.
C20_Witness ==
    /\ collect_result.fn = "collect_evm_events"
    /\ collect_result.res = "Ok"
    /\ \E i, j \in 1..Len(collect_result.logs) :
          LET a == collect_result.logs[i].id
              b == collect_result.logs[j].id
          IN /\ i < j
             /\ ~DecodesBurnt(a) /\ ~DecodesMinted(a)
             /\ DecodesBurnt(b) /\ DecodesMinted(b)
             /\ TasksOfLog(a) = 0
             /\ CopiesIn(EvmTask("PrepareMintOrder", b), evm_tasks) = 1
             /\ CopiesIn(EvmTask("RemoveMintOrder", b), evm_tasks) = 0

(***************************************************************************)
(* Part IV.  The ICRC-2 minter canister (icrc2-minter/src/canister.rs):    *)
(* init and post_upgrade, the owner-only methods, burn_icrc2, and the      *)
(* scheduler that the global timer runs.  The task storage is stable       *)
(* memory; the completion callback and the timers live on the wasm heap,   *)
(* which an upgrade replaces.                                              *)
(***************************************************************************)
\* the principals that call the canister and that init data and arguments name
Anonymous == "anonymous"
Principals == {Anonymous, "owner", "bob"}

\* InitData: owner and evm_principal
InitDatas == [owner : Principals, evm_principal : Principals]

\* the init data of the tests' init_canister
TestInitData == [owner |-> "owner", evm_principal |-> Anonymous]

\* line 79
EVM_INFO_INITIALIZATION_RETRIES == 5

\* a task in the task storage: the BridgeTask, the retry policy of its options
\* and the number of failed executions; the policy "MaxRetries(u32::MAX)" stands
\* for with_max_retries_policy(u32::MAX), whose count no run reaches
ScheduledTask(kind, operation_id, retry_policy, retries) ==
    [kind |-> kind, operation_id |-> operation_id, retry_policy |-> retry_policy,
     retries |-> retries, failures |-> 0]

\* lines 78-90
InitEvmInfoTask == ScheduledTask("InitEvmInfo", 0, "MaxRetries", EVM_INFO_INITIALIZATION_RETRIES)

\* lines 92-103
CollectEvmEventsTask == ScheduledTask("CollectEvmEvents", 0, "Infinite", 0)

\* lines 378-401
PrepareMintOrderTask(operation_id) ==
    ScheduledTask("PrepareMintOrder", operation_id, "MaxRetries(u32::MAX)", 0)

\* lines 487-505: the level at which the completion callback logs a status
LogTaskExecutionError(status) ==
    IF status \in {"Failed", "TimeoutOrPanic"} THEN "error" ELSE "trace"

\* what the scheduler hands to the completion callback when a task leaves the
\* queue with a status
OnCompletion(t, status) ==
    IF heap.on_completion_callback
    THEN {[task |-> t, status |-> status, level |-> LogTaskExecutionError(status)]}
    ELSE {}

\* a policy without a ceiling
Unbounded(t) == t.retry_policy \in {"Infinite", "MaxRetries(u32::MAX)"}

\* the scheduler's decision after a failed execution: a bounded policy of N
\* attempts gives up with the Nth failure
ShouldRetry(t) == Unbounded(t) \/ t.failures + 1 < t.retries

Called(fn, caller, res) == [NoCall EXCEPT !.fn = fn, !.caller = caller, !.res = res]

(***************************************************************************)
(* init, post_upgrade and the timers                                       *)
(***************************************************************************)
\* lines 460-466; the second variant accepts every principal
CheckAnonymousPrincipalNever(principal) == "Ok"

CheckAnonymousPrincipal(principal) ==
    IF principal = Anonymous THEN "AnonymousPrincipal" ELSE "Ok"

\* lines 449-457
InspectCheckIsOwner(principal, owner) ==
    IF owner # principal THEN "NotAuthorized" ELSE "Ok"

\* lines 51-76: the global timer is set
SetTimers(h) == [h EXCEPT !.timer = TRUE]

\* lines 507-515: the heap after the wasm module is instantiated: the scheduler
\* is built from the task storage alone
NewHeap == [on_completion_callback |-> FALSE, timer |-> FALSE]

\* lines 106-139; init traps for an anonymous owner, and a trap leaves the
\* canister as it was
MinterInit(init_data) ==
    /\ ~settings.installed
    /\ IF CheckAnonymousPrincipal(init_data.owner) # "Ok"
       THEN /\ call_result' = [Called("init", "none", "anonymous principal not allowed")
                                  EXCEPT !.init_data = init_data]
            /\ UNCHANGED <<settings, logger_filter, nonce, pending_tasks, heap>>
       ELSE /\ settings' = [installed |-> TRUE, owner |-> init_data.owner,
                            evm_principal |-> init_data.evm_principal]
            /\ logger_filter' = "default"
            /\ nonce' = 0
            /\ pending_tasks' = pending_tasks (+) SetToBag({InitEvmInfoTask})
            /\ heap' = SetTimers([heap EXCEPT !.on_completion_callback = TRUE])
            /\ call_result' = [Called("init", "none", "Ok") EXCEPT !.init_data = init_data]
    /\ UNCHANGED <<burn_calls, icrc2_burns, operation_ids>>
    /\ UNCHANGED <<mint_tx_vars, ops_vars, evm_vars, params_vars>>

\* lines 141-152: post_upgrade does not reset the state; the second variant
\* resets it as init does
NonceAfterUpgradeReset(n) == 0

NonceAfterUpgrade(n) == n

\* lines 141-152; the canister is stopped for the upgrade, so no call is in
\* flight, and the new module starts with a new heap
PostUpgrade ==
    /\ settings.installed
    /\ burn_calls = EmptyBag
    /\ heap' = SetTimers(NewHeap)
    /\ nonce' = NonceAfterUpgrade(nonce)
    /\ call_result' = Called("post_upgrade", "none", "Ok")
    /\ UNCHANGED <<settings, logger_filter, pending_tasks, burn_calls, icrc2_burns,
                   operation_ids>>
    /\ UNCHANGED <<mint_tx_vars, ops_vars, evm_vars, params_vars>>

(***************************************************************************)
(* The scheduler                                                           *)
(***************************************************************************)
\* number of CollectEvmEvents tasks in the task storage
CollectTasksPending ==
    LET waiting == {t \in BagToSet(pending_tasks) : t.kind = "CollectEvmEvents"} IN
    BagCardinality([t \in waiting |-> CopiesIn(t, pending_tasks)])

\* lines 60-67: the global timer fires and appends two CollectEvmEvents tasks;
\* the run() it starts executes the tasks in the steps that follow
GlobalTimer ==
    /\ heap.timer
    /\ CollectTasksPending + 2 <= MaxCollectTasks
    /\ pending_tasks' = pending_tasks (+) SetToBag({CollectEvmEventsTask})
                                      (+) SetToBag({CollectEvmEventsTask})
    /\ call_result' = Called("global_timer", "none", "Ok")
    /\ UNCHANGED <<settings, logger_filter, nonce, heap, burn_calls, icrc2_burns,
                   operation_ids>>
    /\ UNCHANGED <<mint_tx_vars, ops_vars, evm_vars, params_vars>>


\* run() executes a task of the storage: it completes, or it fails and is
\* queued again with one more failure, or it fails for the last time
ExecuteTask(t) ==
    /\ heap.timer
    /\ \E ok \in BOOLEAN :
        IF ok
        THEN /\ pending_tasks' = pending_tasks (-) SetToBag({t})
             /\ call_result' = [NoCall EXCEPT !.fn = "task", !.task = t, !.res = "Ok",
                                   !.log = OnCompletion(t, "Completed")]
        ELSE LET failed == [t EXCEPT !.failures = @ + 1] IN
             IF ShouldRetry(t)
             THEN /\ Unbounded(t) => t.failures < MaxFailures
                  /\ pending_tasks' = (pending_tasks (-) SetToBag({t})) (+) SetToBag({failed})
                  /\ call_result' = [NoCall EXCEPT !.fn = "task", !.task = t, !.res = "Err"]
             ELSE /\ pending_tasks' = pending_tasks (-) SetToBag({t})
                  /\ call_result' = [NoCall EXCEPT !.fn = "task", !.task = t, !.res = "Err",
                                        !.log = OnCompletion(failed, "Failed")]
    /\ UNCHANGED <<settings, logger_filter, nonce, heap, burn_calls, icrc2_burns,
                   operation_ids>>
    /\ UNCHANGED <<mint_tx_vars, ops_vars, evm_vars, params_vars>>

(***************************************************************************)
(* The owner-only methods and the queries                                  *)
(***************************************************************************)
\* lines 202-209: the new owner is checked before the caller
SetOwnerInspectMessageCheck(principal, owner, current_owner) ==
    IF CheckAnonymousPrincipal(owner) # "Ok"
    THEN CheckAnonymousPrincipal(owner)
    ELSE InspectCheckIsOwner(principal, current_owner)

\* lines 234-241
SetEvmPrincipalInspectMessageCheck(principal, evm, current_owner) ==
    IF CheckAnonymousPrincipal(evm) # "Ok"
    THEN CheckAnonymousPrincipal(evm)
    ELSE InspectCheckIsOwner(principal, current_owner)

\* line 221: state.config.set_owner(owner)
ConfigSetOwner(s, owner) == [s EXCEPT !.owner = owner]

\* line 253: state.config.set_evm_principal(evm); the second variant writes
\* the owner
ConfigSetEvmPrincipalAsOwner(s, evm) == [s EXCEPT !.owner = evm]

ConfigSetEvmPrincipal(s, evm) == [s EXCEPT !.evm_principal = evm]

\* lines 195-199 and 227-231
GetOwner == settings.owner
GetEvmPrincipal == settings.evm_principal

\* lines 216-225
SetOwner(caller, owner) ==
    /\ settings.installed
    /\ LET check == SetOwnerInspectMessageCheck(caller, owner, settings.owner) IN
       /\ settings' = IF check = "Ok" THEN ConfigSetOwner(settings, owner) ELSE settings
       /\ call_result' = [Called("set_owner", caller, check) EXCEPT !.principal = owner]
    /\ UNCHANGED <<logger_filter, nonce, pending_tasks, heap, burn_calls, icrc2_burns,
                   operation_ids>>
    /\ UNCHANGED <<mint_tx_vars, ops_vars, evm_vars, params_vars>>

\* lines 248-257
SetEvmPrincipal(caller, evm) ==
    /\ settings.installed
    /\ LET check == SetEvmPrincipalInspectMessageCheck(caller, evm, settings.owner) IN
       /\ settings' = IF check = "Ok" THEN ConfigSetEvmPrincipal(settings, evm)
                      ELSE settings
       /\ call_result' = [Called("set_evm_principal", caller, check) EXCEPT !.principal = evm]
    /\ UNCHANGED <<logger_filter, nonce, pending_tasks, heap, burn_calls, icrc2_burns,
                   operation_ids>>
    /\ UNCHANGED <<mint_tx_vars, ops_vars, evm_vars, params_vars>>

\* the filters a caller passes; the logger accepts a filter or returns an error
LoggerFilters == {"info", "debug"}

\* lines 168-178
SetLoggerFilter(caller, filter) ==
    /\ settings.installed
    /\ LET check == InspectCheckIsOwner(caller, settings.owner) IN
       IF check # "Ok"
       THEN /\ call_result' = Called("set_logger_filter", caller, check)
            /\ UNCHANGED logger_filter
       ELSE \E accepted \in BOOLEAN :
              IF accepted
              THEN /\ logger_filter' = filter
                   /\ call_result' = Called("set_logger_filter", caller, "Ok")
              ELSE /\ call_result' = Called("set_logger_filter", caller, "Err")
                   /\ UNCHANGED logger_filter
    /\ UNCHANGED <<settings, nonce, pending_tasks, heap, burn_calls, icrc2_burns,
                   operation_ids>>
    /\ UNCHANGED <<mint_tx_vars, ops_vars, evm_vars, params_vars>>

\* lines 188-193
IcLogs(caller) ==
    /\ settings.installed
    /\ call_result' = Called("ic_logs", caller, InspectCheckIsOwner(caller, settings.owner))
    /\ UNCHANGED <<settings, logger_filter, nonce, pending_tasks, heap, burn_calls,
                   icrc2_burns, operation_ids>>
    /\ UNCHANGED <<mint_tx_vars, ops_vars, evm_vars, params_vars>>

(***************************************************************************)
(* burn_icrc2                                                              *)
(***************************************************************************)
\* Icrc2Burn as far as burn_icrc2 reads it: the amount, the recipient address,
\* and approve_minted_tokens, absent or with a signature that checks or not
BurnReasons ==
    [amount : {0, 1}, recipient_address : {"zero", "0xabc"},
     approve : {"none", "valid", "invalid"}]

\* the callers of burn_icrc2
BurnCallers == {"bob"}

\* lines 469-481; the second variant checks the amount only
InspectMintReasonAmountOnly(reason) ==
    IF reason.amount = 0 THEN "amount is zero" ELSE "Ok"

InspectMintReason(reason) ==
    IF reason.amount = 0 THEN "amount is zero"
    ELSE IF reason.recipient_address = "zero" THEN "recipient address is zero"
    ELSE "Ok"

\* lines 343-352: approval.check_signature
CheckSignature(reason) == IF reason.approve = "invalid" THEN "invalid principal signature" ELSE "Ok"

\* State::next_nonce returns the counter and moves it
NonceAfterNext(n) == n + 1

BurnCall(pc, caller, reason) == [pc |-> pc, caller |-> caller, reason |-> reason]

BurnReturns(c, res, msg) ==
    [Called("burn_icrc2", c.caller, res) EXCEPT !.reason = c.reason, !.msg = msg]

\* lines 336-360: the reason and the approval are checked, then the token info
\* is queried
BurnIcrc2(caller, reason) ==
    /\ settings.installed
    /\ LET c == BurnCall("token_info", caller, reason) IN
       IF InspectMintReason(reason) # "Ok"
       THEN /\ call_result' = BurnReturns(c, "InvalidBurnOperation", InspectMintReason(reason))
            /\ UNCHANGED burn_calls
       ELSE IF CheckSignature(reason) # "Ok"
       THEN /\ call_result' = BurnReturns(c, "InvalidBurnOperation", CheckSignature(reason))
            /\ UNCHANGED burn_calls
       ELSE /\ BagCardinality(burn_calls) < MaxBurnCalls
            /\ burn_calls' = burn_calls (+) SetToBag({c})
            /\ call_result' = NoCall
    /\ UNCHANGED <<settings, logger_filter, nonce, pending_tasks, heap, icrc2_burns,
                   operation_ids>>
    /\ UNCHANGED <<mint_tx_vars, ops_vars, evm_vars, params_vars>>

\* lines 359-374: the token info arrives and icrc2::burn is called
BurnIcrc2TokenInfo(c) ==
    /\ c.pc = "token_info"
    /\ \E found \in BOOLEAN :
        IF found
        THEN /\ burn_calls' = (burn_calls (-) SetToBag({c}))
                                 (+) SetToBag({[c EXCEPT !.pc = "burn"]})
             /\ call_result' = NoCall
        ELSE /\ burn_calls' = burn_calls (-) SetToBag({c})
             /\ call_result' = BurnReturns(c, "InvalidBurnOperation", "failed to get token info")
    /\ UNCHANGED <<settings, logger_filter, nonce, pending_tasks, heap, icrc2_burns,
                   operation_ids>>
    /\ UNCHANGED <<mint_tx_vars, ops_vars, evm_vars, params_vars>>

\* lines 368-404: icrc2::burn resolves; after a burn the nonce is taken and the
\* PrepareMintOrder task is appended
BurnIcrc2Burn(c) ==
    /\ c.pc = "burn"
    /\ \E burned \in BOOLEAN :
        IF burned
        THEN /\ icrc2_burns < MaxBurns
             /\ icrc2_burns' = icrc2_burns + 1
             /\ nonce' = NonceAfterNext(nonce)
             /\ operation_ids' = Append(operation_ids, nonce)
             /\ pending_tasks' = pending_tasks (+) SetToBag({PrepareMintOrderTask(nonce)})
             /\ call_result' = [BurnReturns(c, "Ok", "none") EXCEPT
                                   !.task = PrepareMintOrderTask(nonce)]
        ELSE /\ call_result' = BurnReturns(c, "Err", "icrc2::burn")
             /\ UNCHANGED <<nonce, pending_tasks, icrc2_burns, operation_ids>>
    /\ burn_calls' = burn_calls (-) SetToBag({c})
    /\ UNCHANGED <<settings, logger_filter, heap>>
    /\ UNCHANGED <<mint_tx_vars, ops_vars, evm_vars, params_vars>>

(***************************************************************************)
(* Specifications of the canister                                          *)
(***************************************************************************)
\* the canister with its scheduler: it is installed with the init data of the
\* tests, the timer fires, tasks are executed, users burn, and it is upgraded
NextCanister ==
    \/ MinterInit(TestInitData)
    \/ PostUpgrade
    \/ GlobalTimer
    \/ \E t \in BagToSet(pending_tasks) : ExecuteTask(t)
    \/ \E caller \in BurnCallers, reason \in BurnReasons : BurnIcrc2(caller, reason)
    \/ \E c \in BagToSet(burn_calls) : BurnIcrc2TokenInfo(c)
    \/ \E c \in BagToSet(burn_calls) : BurnIcrc2Burn(c)

SpecCanister == Init /\ [][NextCanister]_vars

\* the settings of the canister: it is installed with any init data, any
\* principal calls the owner-only methods, and it is upgraded
NextSettings ==
    \/ \E init_data \in InitDatas : MinterInit(init_data)
    \/ PostUpgrade
    \/ \E caller \in Principals, owner \in Principals : SetOwner(caller, owner)
    \/ \E caller \in Principals, evm \in Principals : SetEvmPrincipal(caller, evm)
    \/ \E caller \in Principals, filter \in LoggerFilters : SetLoggerFilter(caller, filter)
    \/ \E caller \in Principals : IcLogs(caller)

SpecSettings == Init /\ [][NextSettings]_vars

(***************************************************************************)
(* Properties of the canister and its scheduler                            *)
(***************************************************************************)
\* a retry policy with a ceiling
Bounded(t) == t.retry_policy = "MaxRetries"

\* the step executes the task t of the storage, and the execution fails
TaskExecuted(t) == call_result'.fn = "task" /\ call_result'.task = t
TaskFailed(t) == TaskExecuted(t) /\ call_result'.res = "Err"

\* the entry the completion callback logs for the permanent failure of t
FailureReport(t) ==
    [task |-> [t EXCEPT !.failures = @ + 1], status |-> "Failed", level |-> "error"]

\* C21: a task with a bounded retry policy of N attempts is not executed again
\* after its Nth failure: with that failure it leaves the task storage, the
\* completion callback reports the permanent failure exactly once, and no task
\* with N failures is ever executed.
C21_BoundedTaskFailsOnceAndIsReported ==
    [][\A t \in BagToSet(pending_tasks) :
          Bounded(t) =>
            /\ TaskExecuted(t) => t.failures < t.retries
            /\ (TaskFailed(t) /\ t.failures + 1 = t.retries) =>
                  /\ \A u \in BagToSet(pending_tasks') : u.kind # t.kind
                  /\ call_result'.log = {FailureReport(t)}]_vars

\* C22: after post_upgrade exactly the tasks that were pending before are
\* pending, with their failure counts, the global timer that runs the scheduler
\* is armed, and the completion callback that was registered before the upgrade
\* is registered, so that permanent failures are still reported.
C22_QueueSurvivesUpgrade ==
    [][call_result'.fn = "post_upgrade" =>
          /\ pending_tasks' = pending_tasks
          /\ heap'.timer
          /\ heap.on_completion_callback => heap'.on_completion_callback]_vars

InvalidReason(reason) ==
    \/ reason.amount = 0
    \/ reason.recipient_address = "zero"
    \/ reason.approve = "invalid"

\* C29: burn_icrc2 with a zero amount, a zero recipient address or an approval
\* whose signature check fails returns InvalidBurnOperation before any side
\* effect: the call is never suspended at a ledger call, no burn is performed,
\* no nonce is taken and no task is appended.
C29_InvalidBurnHasNoSideEffect ==
    [][/\ \A c \in BagToSet(burn_calls') : ~InvalidReason(c.reason)
       /\ (call_result'.fn = "burn_icrc2" /\ InvalidReason(call_result'.reason)) =>
             /\ call_result'.res = "InvalidBurnOperation"
             /\ icrc2_burns' = icrc2_burns
             /\ nonce' = nonce
             /\ operation_ids' = operation_ids
             /\ pending_tasks' = pending_tasks
             /\ burn_calls' = burn_calls]_vars

\* a call with a zero recipient address is rejected while a task of an earlier
\* burn is pending and another call is in flight
C29_Witness ==
    /\ call_result.fn = "burn_icrc2" /\ call_result.res = "InvalidBurnOperation"
    /\ call_result.reason.amount = 1 /\ call_result.reason.recipient_address = "zero"
    /\ \E t \in BagToSet(pending_tasks) : t.kind = "PrepareMintOrder"
    /\ burn_calls # EmptyBag

\* the methods that only the owner may call
OwnerOnlyMethods == {"set_owner", "set_evm_principal", "set_logger_filter", "ic_logs"}

\* C26: set_owner, set_evm_principal, set_logger_filter and ic_logs called by a
\* principal that is not the current owner return NotAuthorized and leave the
\* owner, the EVM principal and the logger filter unchanged; and the owner
\* changes only by a successful set_owner call of the then-current owner.
C26_OwnerOnlyMethodsAreAccessControlled ==
    [][/\ (call_result'.fn \in OwnerOnlyMethods /\ call_result'.caller # settings.owner) =>
             /\ call_result'.res = "NotAuthorized"
             /\ settings' = settings
             /\ logger_filter' = logger_filter
       /\ (settings.installed /\ settings'.owner # settings.owner) =>
             /\ call_result'.fn = "set_owner"
             /\ call_result'.caller = settings.owner
             /\ call_result'.res = "Ok"]_vars

C28_SettersSetTheirOwnField ==
    [][/\ (call_result'.fn = "set_owner" /\ call_result'.res = "Ok") =>
             /\ call_result'.caller = settings.owner
             /\ GetOwner' = call_result'.principal
             /\ GetEvmPrincipal' = GetEvmPrincipal
       /\ (call_result'.fn = "set_evm_principal" /\ call_result'.res = "Ok") =>
             /\ call_result'.caller = settings.owner
             /\ GetEvmPrincipal' = call_result'.principal
             /\ GetOwner' = GetOwner
       /\ (call_result'.fn = "init" /\ call_result'.res = "Ok") =>
             /\ GetOwner' = call_result'.init_data.owner
             /\ GetEvmPrincipal' = call_result'.init_data.evm_principal]_vars

\* the owner, who was set by set_owner, has set the EVM principal to another
\* principal than itself and than the one of the init data
C28_Witness ==
    /\ call_result.fn = "set_evm_principal" /\ call_result.res = "Ok"
    /\ GetEvmPrincipal = "owner" /\ GetOwner = "bob"

\* C30: push_operation for an operation without a signed order returns
\* FailedToProgress and leaves orders_to_send unchanged; for an operation with
\* a signed order it returns Ok, the entry of the order's digest exists
\* afterwards (created with the order's batch if it was absent), (operation id,
\* order index) is added to the related operations of that entry, and no other
\* entry changes.
C30_PushOperationAddsToItsEntryOnly ==
    [][returned'.fn = "push_operation" =>
         LET op == returned'.id
             order == GetSignedOrders(op)
             d == Digest(order.batch)
         IN /\ returned'.res \in {"Ok", "FailedToProgress"}
            /\ returned'.res = "FailedToProgress" => orders_to_send' = orders_to_send
            /\ returned'.res = "Ok" =>
                 /\ DOMAIN orders_to_send' = DOMAIN orders_to_send \cup {d}
                 /\ orders_to_send'[d].orders_batch = order.batch
                 /\ orders_to_send'[d].related_operations =
                        (IF d \in DOMAIN orders_to_send
                         THEN orders_to_send[d].related_operations
                         ELSE {}) \cup {<<op, order.idx>>}
                 /\ \A x \in DOMAIN orders_to_send \ {d} :
                        orders_to_send'[x] = orders_to_send[x]]_vars

\* a push has added a second operation to an entry that existed, next to
\* another entry
C30_Witness ==
    /\ returned.fn = "push_operation" /\ returned.res = "Ok"
    /\ LET d == Digest(GetSignedOrders(returned.id).batch)
       IN /\ d \in DOMAIN orders_to_send
          /\ Cardinality(orders_to_send[d].related_operations) = 2
          /\ DOMAIN orders_to_send # {d}

(***************************************************************************)
(* Part V.  The EVM parameters of the bridge configuration: the node that  *)
(* answers the refresh, and OperationContext::send_mint_transaction        *)
(* (bridge-canister/src/bridge.rs)                                         *)
(***************************************************************************)
GasPrices == {1, 2}

\* The EVM moves on between two queries: transactions of the bridge account
\* are included, which raises the nonce the node answers, and the gas price
\* changes.
EvmAdvances ==
    /\ \E n \in evm_chain.nonce..MaxNonce, g \in GasPrices :
          /\ evm_chain' = [nonce |-> n, gas_price |-> g]
          /\ evm_chain' # evm_chain
    /\ UNCHANGED <<evm_params, submitted_txs, ctx_sends, ctx_result>>
    /\ UNCHANGED <<mint_tx_vars, ops_vars, evm_vars, can_vars>>

ContextPath == "OperationContext::send_mint_transaction"
ContextReturns(res) == [fn |-> "send_mint_transaction", res |-> res]

\* transactions the EVM accepted from OperationContext::send_mint_transaction
ContextTxs == {i \in 1..Len(submitted_txs) : submitted_txs[i].path = ContextPath}

\* lines 57-58: get the signer, ask its address
ContextSendMintTransactionBegin ==
    /\ ctx_sends < MaxCtxSends
    /\ \E signer \in {"ok", "Signer"} :
        IF signer = "ok"
        THEN /\ ctx_sends' = ctx_sends + 1
             /\ ctx_result' = NoContextResult
        ELSE /\ ctx_result' = ContextReturns(signer)
             /\ UNCHANGED ctx_sends
    /\ UNCHANGED <<evm_params, evm_chain, submitted_txs>>
    /\ UNCHANGED <<mint_tx_vars, ops_vars, evm_vars, can_vars>>

\* lines 58-83: the address arrives, the transaction is built with the nonce of
\* the stored EVM params, signed and sent
ContextSendMintTransactionSend ==
    /\ ctx_sends > 0
    /\ \E outcome \in {"GetAddress", "BridgeContract", GetEvmParams("ok", "EvmParams"),
                       "SignTx", "EvmRequestFailed"} :
        IF outcome = "ok"
        THEN /\ Cardinality(ContextTxs) < MaxContextTxs
             /\ submitted_txs' = Append(submitted_txs, OutboundTx(ContextPath, evm_params.nonce))
             /\ ctx_result' = ContextReturns("Ok")
        ELSE /\ ctx_result' = ContextReturns(outcome)
             /\ UNCHANGED submitted_txs
    /\ ctx_sends' = ctx_sends - 1
    /\ UNCHANGED <<evm_params, evm_chain>>
    /\ UNCHANGED <<mint_tx_vars, ops_vars, evm_vars, can_vars>>

(***************************************************************************)
(* Specification of the configuration.  A canister is the ICRC-2 minter,   *)
(* which prepares deposits and sends their mint transactions from its task *)
(* handlers while the EVM moves on, or a bridge that sends through the     *)
(* batching service and the operation context: the first step decides.     *)
(***************************************************************************)
\* the EVM parameters may not be set yet
InitParams ==
    /\ MintTxInitWith([b \in Batches |-> b])
    /\ \E params \in {NoEvmParams, InitialEvmParams} : ConfigInit(params)

\* neither the batching service nor the operation context was called
ServiceUnused ==
    /\ returned = NoReturn /\ runs = EmptyBag
    /\ ctx_result = NoContextResult /\ ctx_sends = 0

\* no event was ingested by the minter, whose refresh is what queries the EVM
MinterUnused == op_store = <<>> /\ evm_chain = [nonce |-> 0, gas_price |-> 1]

NextParams ==
    \/ ServiceUnused /\ \E notification \in PlainNotifications : TaskByLogNotify(notification)
    \/ \E t \in BagToSet(tasks) : BurnIcrc2TokensBegin(t)
    \/ \E e \in BagToSet(execs) : BurnIcrc2TokensBurn(e)
    \/ \E t \in BagToSet(tasks) : PrepareMintOrderBegin(t)
    \/ \E e \in BagToSet(execs) : PrepareMintOrderSigned(e)
    \/ \E e \in BagToSet(execs) : PrepareMintOrderParams(e)
    \/ \E t \in BagToSet(tasks) : SendMintTransactionBegin(t)
    \/ \E e \in BagToSet(execs) : SendMintTransactionSend(e)
    \/ ServiceUnused /\ EvmAdvances
    \/ MinterUnused /\ \E op \in OpIds : PushOperation(op)
    \/ MinterUnused /\ RunBegin
    \/ \E rec \in BagToSet(runs) : RunSignTx(rec)
    \/ \E rec \in BagToSet(runs) : RunSendTx(rec)
    \/ MinterUnused /\ ContextSendMintTransactionBegin
    \/ ContextSendMintTransactionSend

SpecParams == InitParams /\ [][NextParams]_vars

(***************************************************************************)
(* Claims about the EVM parameters                                         *)
(***************************************************************************)
\* C24: every outbound transaction is built from EVM parameters that were
\* refreshed immediately before its build, with no other build in between, so
\* that no two outbound transactions the EVM was sent (single mint
\* transactions or batch mint transactions) carry the same account nonce.
C24_OutboundNoncesDistinct ==
    \A i, j \in 1..Len(submitted_txs) :
        i # j => submitted_txs[i].nonce # submitted_txs[j].nonce

\* an update_evm_params call returns in this step
RefreshReturns(e) == e.pc = "update_evm_params" /\ execs' = Done(e)

\* C25: the stored EVM parameters change only in the step in which
\* update_evm_params returns Ok, and then only the nonce and the gas price
\* change, to the values the EVM answered, while the chain id stays; a refresh
\* that fails leaves them as they were; and the steps of the outbound paths
\* (send_mint_transaction of the minter and of the operation context, run of
\* the batching service) leave them as they were.
C25_OnlyTheRefreshWritesEvmParams ==
    [][/\ evm_params' # evm_params =>
             /\ \E e \in BagToSet(execs) : RefreshReturns(e)
             /\ task_result'.fn = "prepare_mint_order" /\ task_result'.res = "Ok"
             /\ evm_params' = [evm_params EXCEPT !.nonce = evm_chain.nonce,
                                                 !.gas_price = evm_chain.gas_price]
       /\ ((\E e \in BagToSet(execs) : RefreshReturns(e)) /\ task_result'.res = "Err") =>
             evm_params' = evm_params
       /\ (submitted_txs' # submitted_txs \/ runs' # runs \/ ctx_sends' # ctx_sends
             \/ \E e \in BagToSet(execs) : e.pc = "send" /\ execs' = Done(e)) =>
             evm_params' = evm_params]_vars

\* a refresh has replaced the nonce and the gas price, the chain id is the
\* initial one, and a mint transaction was sent with the new nonce
C25_Witness ==
    /\ evm_params = [InitialEvmParams EXCEPT !.nonce = 1, !.gas_price = 2]
    /\ task_result.fn = "prepare_mint_order" /\ task_result.res = "Err"
    /\ \E i \in 1..Len(submitted_txs) : submitted_txs[i].nonce = 1

(***************************************************************************)
(* More properties of the batching service                                 *)
(***************************************************************************)
\* the step resumes or ends the run rec
RunStep(rec) == CopiesIn(rec, runs') = CopiesIn(rec, runs) - 1

\* C38: run() on a service with no pending batch returns Ok, submits nothing
\* and notifies nobody; a run() that selected a batch handles the digest of
\* that batch only: a step of it submits at most one transaction, which is the
\* one of its digest and is submitted by its send step, notifies with the hash
\* of that transaction only, and leaves every other entry of orders_to_send
\* as it was.
C38_RunHandlesOneDigest ==
    [][/\ (orders_to_send = <<>> /\ returned'.fn = "run" /\ runs' = runs) =>
             /\ returned'.res = "Ok"
             /\ sent_txs' = sent_txs
             /\ mint_tx_sent' = EmptyBag
             /\ orders_to_send' = orders_to_send
       /\ \A rec \in BagToSet(runs) :
             RunStep(rec) =>
                /\ DOMAIN orders_to_send \ {rec.digest} \subseteq DOMAIN orders_to_send'
                /\ DOMAIN orders_to_send' \subseteq DOMAIN orders_to_send
                /\ \A x \in DOMAIN orders_to_send \ {rec.digest} :
                      orders_to_send'[x] = orders_to_send[x]
                /\ Len(sent_txs') <= Len(sent_txs) + 1
                /\ Len(sent_txs') > Len(sent_txs) =>
                      /\ rec.pc = "send"
                      /\ sent_txs'[Len(sent_txs')].digest = rec.digest
                      /\ \A c \in BagToSet(mint_tx_sent') :
                            c.tx_hash = sent_txs'[Len(sent_txs')].tx_hash
                /\ Len(sent_txs') = Len(sent_txs) => mint_tx_sent' = EmptyBag]_vars

\* a run has sent the transaction of its digest while another batch was
\* pending, and that batch is still pending
C38_Witness ==
    /\ returned.fn = "run" /\ returned.res = "Ok"
    /\ Len(sent_txs) = 1
    /\ orders_to_send # <<>>
    /\ sent_txs[1].digest \notin DOMAIN orders_to_send
    /\ mint_tx_sent # EmptyBag

(***************************************************************************)
(* More properties of the minter's handlers                                *)
(***************************************************************************)
\* the operations a Minted event is accepted for: the one of its recipient
\* with its nonce, in MintOrderSent / RefundMintOrderSent with its token
Accepting(ev) ==
    {n \in Matched(ev) :
        /\ op_store[n].state.stage \in {"MintOrderSent", "RefundMintOrderSent"}
        /\ op_store[n].state.token = ev.token}

\* C32: remove_mint_order returns an error and changes no stored operation
\* when the nonce of the Minted event matches no operation of its recipient,
\* when the matched operation is in MintOrderSent / RefundMintOrderSent with
\* another token id, or when it is in any other state; when nonce and token id
\* match it returns Ok and changes that operation only.
C32_RemoveMintOrderRefusesMismatch ==
    [][\A t \in BagToSet(tasks) :
          RemoveStep(t) =>
             /\ Accepting(t.event) = {} =>
                   /\ task_result'.res = "Err"
                   /\ op_store' = op_store
             /\ \A n \in Accepting(t.event) :
                   /\ task_result'.res = "Ok"
                   /\ op_store'[n] # op_store[n]
                   /\ \A m \in DOMAIN op_store \ {n} : op_store'[m] = op_store[m]]_vars

\* a Minted event was refused whose nonce matches an operation of its
\* recipient in MintOrderSent that has another token id
C32_Witness ==
    /\ task_result.fn = "remove_mint_order"
    /\ task_result.res = "Err"
    /\ task_result.event.token \in TokenIds
    /\ \E n \in Matched(task_result.event) :
        /\ op_store[n].state.stage = "MintOrderSent"
        /\ op_store[n].state.token # task_result.event.token

\* number of SendMintTransaction tasks that wait for operation n
SendTasks(n, waiting) ==
    LET send == {t \in BagToSet(waiting) : t.kind = "SendMintTransaction" /\ t.op = n} IN
    BagCardinality([t \in send |-> CopiesIn(t, waiting)])

OperationTasks ==
    {"BurnIcrc2Tokens", "CreateMintOrder", "SendMintTransaction", "MintIcrc2Tokens"}

\* the options each task was appended with (lines 195-201, 304, 320-324, 626-633)
OptionsOf(kind) ==
    CASE kind = "CreateMintOrder" -> "infinite"
      [] kind = "SendMintTransaction" -> "default"
      [] OTHER -> "max"

\* whether a task of the kind has been appended for an operation that is in
\* state st now
WasAppended(kind, st) ==
    CASE kind = "BurnIcrc2Tokens" -> st.family = "Deposit"
      [] kind = "MintIcrc2Tokens" -> st.family = "Withdrawal"
      [] kind = "CreateMintOrder" ->
            \/ st.family = "Deposit" /\ st.stage # "Scheduled"
            \/ st.family = "Withdrawal" /\ st.stage \notin {"Scheduled", "Transferred"}
      [] kind = "SendMintTransaction" ->
            /\ st.family = "Deposit"
            /\ \/ st.stage \in {"MintOrderSent", "Minted"}
               \/ st.stage = "MintOrderSigned" /\ st.fee_payer
      [] OTHER -> FALSE

Redeliver(kind, n) ==
    /\ n \in DOMAIN op_store
    /\ WasAppended(kind, op_store[n].state)
    /\ ~Live(kind, n)
    /\ tasks' = tasks (+) SetToBag({Task(kind, n, NoEvent, OptionsOf(kind))})
    /\ task_result' = NoResult
    /\ UNCHANGED <<op_store, execs, mint_txs, ledger_calls>>
    /\ UNCHANGED <<mint_tx_vars, evm_vars, can_vars, params_vars>>

NextRedelivery ==
    \/ \E burnt \in BurntEvents : TaskByLogBurnt(burnt)
    \/ \E notification \in PlainNotifications : TaskByLogNotify(notification)
    \/ \E t \in BagToSet(tasks) : BurnIcrc2TokensBegin(t)
    \/ \E e \in BagToSet(execs) : BurnIcrc2TokensBurn(e)
    \/ \E t \in BagToSet(tasks) : PrepareMintOrderBegin(t)
    \/ \E e \in BagToSet(execs) : PrepareMintOrderSigned(e)
    \/ \E e \in BagToSet(execs) : PrepareMintOrderParams(e)
    \/ \E t \in BagToSet(tasks) : SendMintTransactionBegin(t)
    \/ \E e \in BagToSet(execs) : SendMintTransactionSend(e)
    \/ \E t \in BagToSet(tasks) : MintIcrc2Begin(t)
    \/ \E e \in BagToSet(execs) : MintIcrc2Mint(e)
    \/ \E kind \in OperationTasks, n \in 1..MaxStoreOps : Redeliver(kind, n)

SpecRedelivery == Init /\ [][NextRedelivery]_vars

(***************************************************************************)
(* Stale and re-delivered tasks                                            *)
(***************************************************************************)
HandlerOf(kind) ==
    CASE kind = "BurnIcrc2Tokens" -> "burn_icrc2_tokens"
      [] kind = "CreateMintOrder" -> "prepare_mint_order"
      [] kind = "SendMintTransaction" -> "send_mint_transaction"
      [] OTHER -> "mint_icrc2"

\* the step that executes the waiting task t
Executes(t) == CopiesIn(t, tasks') < CopiesIn(t, tasks)

\* C35: when one of the four operation handlers is executed for a task whose
\* operation is missing or in another state than the handler expects, the
\* handler returns Ok and the step starts no external call (no execution is
\* suspended at an await, no ledger call is made, no mint transaction is
\* submitted), leaves the operation store unchanged and appends no task: the
\* task is gone and is not queued again.
C35_StaleTaskIsNoOp ==
    [][\A t \in BagToSet(tasks) :
         (/\ t.kind \in OperationTasks
          /\ ~Expects(t.kind, StoreGet(t.op))
          /\ Executes(t))
         => /\ task_result' = Result(HandlerOf(t.kind), t, "Ok")
            /\ tasks' = Taken(t)
            /\ UNCHANGED <<op_store, execs, mint_txs, ledger_calls>>
            /\ UNCHANGED <<sent_txs, mint_tx_sent>>]_vars

\* C35 witness: burn_icrc2_tokens was executed again for a deposit whose mint
\* order has been sent already, and returned Ok
C35_Witness ==
    /\ task_result.fn = "burn_icrc2_tokens"
    /\ task_result.res = "Ok"
    /\ StoreGet(task_result.op).stage = "MintOrderSent"

(***************************************************************************)
(* The ledger side effect of an operation                                  *)
(***************************************************************************)
LedgerCalls(call, n) == CopiesIn([call |-> call, op |-> n], ledger_calls)

\* C36: over every sequence of executions, retries and re-deliveries the ledger
\* has burned at most once for an operation, and only for a deposit, and has
\* minted at most once for an operation, and only for a withdrawal; an
\* operation that is still Scheduled has had no ledger call.
C36_LedgerCallAtMostOnce ==
    /\ \A c \in BagToSet(ledger_calls) : c.op \in DOMAIN op_store
    /\ \A n \in DOMAIN op_store :
          /\ LedgerCalls("burn", n) <= 1
          /\ LedgerCalls("mint", n) <= 1
          /\ LedgerCalls("burn", n) = 1 => op_store[n].state.family = "Deposit"
          /\ LedgerCalls("mint", n) = 1 => op_store[n].state.family = "Withdrawal"
          /\ op_store[n].state.stage = "Scheduled" =>
                LedgerCalls("burn", n) + LedgerCalls("mint", n) = 0

\* C36 witness: mint_icrc2 failed with a transient error, was executed again
\* and minted, and the ledger has the one mint of that withdrawal
C36_Witness ==
    /\ task_result.fn = "mint_icrc2"
    /\ task_result.res = "Ok"
    /\ task_result.retried
    /\ LedgerCalls("mint", task_result.op) = 1

(***************************************************************************)
(* Initialization of the EVM info under interleaving                       *)
(***************************************************************************)
\* C31: a chain id that is set is never changed, and a next_block that is set
\* is not written by init_evm_state (init_evm_chain_id, init_evm_next_block),
\* also when executions overlap at their await points.
C31_EvmInfoInitializedOnce ==
    [][/\ evm_info.chain_id # 0 => evm_info'.chain_id = evm_info.chain_id
       /\ (evm_info.next_block # 0 /\ collect_result'.fn = "init_evm_state")
             => evm_info'.next_block = evm_info.next_block]_vars

(***************************************************************************)
(* The next_block pointer                                                  *)
(***************************************************************************)
\* C37: no collect_evm_events execution decreases next_block, and an
\* execution whose get_logs request fails returns an error, leaves next_block
\* unchanged and appends no task.
C37_NextBlockNeverDecreases ==
    [][collect_result'.fn = "collect_evm_events" =>
          /\ evm_info'.next_block >= evm_info.next_block
          /\ collect_result'.res = "Err" =>
                /\ evm_info' = evm_info
                /\ evm_tasks' = evm_tasks]_vars

(***************************************************************************)
(* The mint orders of the EVM-to-EVM minter (evm-minter/src/tasks.rs).     *)
(* A PrepareMintOrder task signs the mint order of a Burnt event and       *)
(* stores it under (sender, src_token, nonce); a RemoveMintOrder task      *)
(* removes the order a Minted event names.                                 *)
(***************************************************************************)
\* BridgeSide and BridgeSide::other; the chain id of the initialized EVM info
\* of a side
Sides == {"Base", "Wrapped"}
OtherSide(side) == IF side = "Base" THEN "Wrapped" ELSE "Base"
SideChainId(side) == IF side = "Base" THEN 1 ELSE 2

\* Id256::from_evm_address: the id holds the chain id and the address.
\* Id256::from_slice: the id the bytes hold, or None for bytes that hold none
Id256FromEvmAddress(address, chain_id) == [chain_id |-> chain_id, address |-> address]
MalformedId == [chain_id |-> 0, address |-> "malformed"]
Id256FromSlice(bytes) == IF bytes = MalformedId THEN NoId256 ELSE bytes

\* the Burnt events of the bridge contracts: they differ from the first in the
\* sender, in the token or in the operation id, and the last has a recipient
\* id that holds no EVM address
BurntEventData(sender, from_erc20, operation_id, recipient_id) ==
    [sender |-> sender, from_erc20 |-> from_erc20, recipient_id |-> recipient_id,
     sender_id |-> NoId256, from_token |-> NoId256, nonce |-> operation_id]

BurntLogs ==
    {BurntEventData("alice", "tokenA", 1, "carol"),
     BurntEventData("bob", "tokenA", 1, "carol"),
     BurntEventData("alice", "tokenB", 1, "carol"),
     BurntEventData("alice", "tokenA", 2, "carol"),
     BurntEventData("alice", "tokenA", 1, "malformed")}

\* the Minted events: sender id, source token and nonce as the contract of the
\* other side emits them; some hold bytes that are no Id256
MintedEventData(sender_id, from_token, operation_id) ==
    [sender |-> "none", from_erc20 |-> "none", recipient_id |-> "none",
     sender_id |-> sender_id, from_token |-> from_token, nonce |-> operation_id]

MintedLogs ==
    {MintedEventData(Id256FromEvmAddress(a, c), Id256FromEvmAddress(t, c), n) :
        a \in {"alice", "bob"}, t \in {"tokenA", "tokenB"}, c \in {1, 2}, n \in {1, 2}}
    \cup {MintedEventData(MalformedId, Id256FromEvmAddress("tokenA", 1), 1),
          MintedEventData(Id256FromEvmAddress("alice", 1), MalformedId, 1)}

OrderTask(kind, event, side) == [kind |-> kind, event |-> event, side |-> side]

OrderTasks ==
    {OrderTask("PrepareMintOrder", burn_event, side) :
        burn_event \in BurntLogs, side \in Sides}
    \cup {OrderTask("RemoveMintOrder", minted_event, "none") : minted_event \in MintedLogs}

\* MintOrders of the state: the entries stored under a key, insert (which
\* replaces the entry of the key) and remove; the second variant of insert
\* adds the entry and keeps the one that was there
MintOrderEntry(sender, src_token, order_nonce, order) ==
    [sender |-> sender, src_token |-> src_token, nonce |-> order_nonce, order |-> order]

EntriesOf(sender, src_token, order_nonce) ==
    {en \in BagToSet(mint_orders) :
        en.sender = sender /\ en.src_token = src_token /\ en.nonce = order_nonce}

WithoutKey(sender, src_token, order_nonce) ==
    LET rest == BagToSet(mint_orders) \ EntriesOf(sender, src_token, order_nonce)
    IN [en \in rest |-> CopiesIn(en, mint_orders)]

MintOrdersInsertKeeping(sender, src_token, order_nonce, order) ==
    mint_orders (+) SetToBag({MintOrderEntry(sender, src_token, order_nonce, order)})

MintOrdersInsert(sender, src_token, order_nonce, order) ==
    WithoutKey(sender, src_token, order_nonce)
        (+) SetToBag({MintOrderEntry(sender, src_token, order_nonce, order)})

MintOrdersRemove(sender, src_token, order_nonce) == WithoutKey(sender, src_token, order_nonce)

\* lines 236-257: the mint order of a Burnt event of the side
MintOrderOf(burn_event, sender_side) ==
    LET sender_chain_id == SideChainId(sender_side)
        recipient_chain_id == SideChainId(OtherSide(sender_side))
    IN [sender |-> Id256FromEvmAddress(burn_event.sender, sender_chain_id),
        src_token |-> Id256FromEvmAddress(burn_event.from_erc20, sender_chain_id),
        recipient |-> burn_event.recipient_id,
        nonce |-> burn_event.nonce,
        sender_chain_id |-> sender_chain_id,
        recipient_chain_id |-> recipient_chain_id]

\* the tasks are appended with max retries u32::MAX (lines 283-289): a task
\* that fails is queued again
OrderReturn(fn, t, res, pending) ==
    /\ order_result' = [fn |-> fn, res |-> res, task |-> t]
    /\ order_tasks' = IF res = "Ok" THEN pending ELSE pending (+) SetToBag({t})

\* lines 186-190 and 273-308: a collected log gives its task
AppendOrderTask(t) ==
    /\ BagCardinality(order_tasks) + BagCardinality(order_execs) < MaxOrderTasks
    /\ order_tasks' = order_tasks (+) SetToBag({t})
    /\ order_result' = NoOrderResult
    /\ UNCHANGED <<mint_orders, order_execs>>
    /\ UNCHANGED <<evm_info, evm_tasks, collects, collect_result>>
    /\ UNCHANGED <<mint_tx_vars, ops_vars, can_vars, params_vars>>

\* lines 195-259: the recipient is decoded, the EVM info of both sides is read
\* and the mint order is built and given to the signer
EvmPrepareMintOrderBegin(t) ==
    /\ t.kind = "PrepareMintOrder"
    /\ \E evm_info_initialized \in BOOLEAN :
        IF t.event.recipient_id # "malformed" /\ evm_info_initialized
        THEN /\ order_tasks' = order_tasks (-) SetToBag({t})
             /\ order_execs' = order_execs (+) SetToBag({
                    [task |-> t, mint_order |-> MintOrderOf(t.event, t.side)]})
             /\ order_result' = NoOrderResult
        ELSE /\ OrderReturn("prepare_mint_order", t, "Err", order_tasks (-) SetToBag({t}))
             /\ UNCHANGED order_execs
    /\ UNCHANGED mint_orders
    /\ UNCHANGED <<evm_info, evm_tasks, collects, collect_result>>
    /\ UNCHANGED <<mint_tx_vars, ops_vars, can_vars, params_vars>>

\* lines 259-271: encode_and_sign resolves and the signed order is stored
EvmPrepareMintOrderSigned(e) ==
    /\ \E signed \in BOOLEAN :
        IF signed
        THEN /\ mint_orders' = MintOrdersInsert(e.mint_order.sender, e.mint_order.src_token,
                                                e.mint_order.nonce, e.mint_order)
             /\ OrderReturn("prepare_mint_order", e.task, "Ok", order_tasks)
        ELSE /\ OrderReturn("prepare_mint_order", e.task, "Err", order_tasks)
             /\ UNCHANGED mint_orders
    /\ order_execs' = order_execs (-) SetToBag({e})
    /\ UNCHANGED <<evm_info, evm_tasks, collects, collect_result>>
    /\ UNCHANGED <<mint_tx_vars, ops_vars, can_vars, params_vars>>

\* lines 310-334
EvmRemoveMintOrder(t) ==
    /\ t.kind = "RemoveMintOrder"
    /\ LET sender_id == Id256FromSlice(t.event.sender_id)
           src_token == Id256FromSlice(t.event.from_token)
       IN IF sender_id = NoId256 \/ src_token = NoId256
          THEN /\ OrderReturn("remove_mint_order", t, "Err", order_tasks (-) SetToBag({t}))
               /\ UNCHANGED mint_orders
          ELSE /\ mint_orders' = MintOrdersRemove(sender_id, src_token, t.event.nonce)
               /\ OrderReturn("remove_mint_order", t, "Ok", order_tasks (-) SetToBag({t}))
    /\ UNCHANGED order_execs
    /\ UNCHANGED <<evm_info, evm_tasks, collects, collect_result>>
    /\ UNCHANGED <<mint_tx_vars, ops_vars, can_vars, params_vars>>

NextMintOrders ==
    \/ \E t \in OrderTasks : AppendOrderTask(t)
    \/ \E t \in BagToSet(order_tasks) : EvmPrepareMintOrderBegin(t)
    \/ \E e \in BagToSet(order_execs) : EvmPrepareMintOrderSigned(e)
    \/ \E t \in BagToSet(order_tasks) : EvmRemoveMintOrder(t)

SpecMintOrders == Init /\ [][NextMintOrders]_vars

(***************************************************************************)
(* Properties of the stored mint orders                                    *)
(***************************************************************************)
KeyOf(en) == <<en.sender, en.src_token, en.nonce>>

\* number of entries that orders holds under the key
StoredUnder(orders, key) ==
    LET under == {en \in BagToSet(orders) : KeyOf(en) = key}
    IN BagCardinality([en \in under |-> CopiesIn(en, orders)])

\* the entries of orders under every key but the given one are those of before
OthersKept(orders_before, orders_after, key) ==
    \A en \in BagToSet(orders_before) \cup BagToSet(orders_after) :
        KeyOf(en) # key => CopiesIn(en, orders_after) = CopiesIn(en, orders_before)

\* the key a PrepareMintOrder task stores its order under
BurntKey(t) ==
    <<Id256FromEvmAddress(t.event.sender, SideChainId(t.side)),
      Id256FromEvmAddress(t.event.from_erc20, SideChainId(t.side)),
      t.event.nonce>>

\* the key a Minted event names
MintedKey(t) == <<t.event.sender_id, t.event.from_token, t.event.nonce>>

\* C39: a RemoveMintOrder task whose Minted event holds a sender id and a
\* source token returns Ok, removes what is stored under (sender id, source
\* token, nonce) of its event and leaves every other entry, so the order of a
\* Burnt event is removed by the event with its sender id, token and nonce and
\* by no other, and the removal of a key with no stored order changes nothing.
\* A PrepareMintOrder task that returns Ok leaves exactly one order under the
\* key of its Burnt event, a second execution for the same event included, and
\* leaves every other entry.  No other step changes the stored orders.
C39_MintOrderStoredAndRemovedByKey ==
    [][LET t == order_result'.task IN
       /\ (order_result'.fn = "remove_mint_order" /\ order_result'.res = "Ok")
             => /\ StoredUnder(mint_orders', MintedKey(t)) = 0
                /\ OthersKept(mint_orders, mint_orders', MintedKey(t))
                /\ StoredUnder(mint_orders, MintedKey(t)) = 0 => mint_orders' = mint_orders
       /\ (order_result'.fn = "remove_mint_order"
             /\ MalformedId \notin {t.event.sender_id, t.event.from_token})
             => order_result'.res = "Ok"
       /\ (order_result'.fn = "prepare_mint_order" /\ order_result'.res = "Ok")
             => /\ StoredUnder(mint_orders', BurntKey(t)) = 1
                /\ OthersKept(mint_orders, mint_orders', BurntKey(t))
       /\ order_result'.res # "Ok" => mint_orders' = mint_orders]_vars

\* C39 witness: a RemoveMintOrder task of a Minted event of alice returned Ok;
\* nothing is stored under its key, while an order of alice under another
\* token or nonce and the order of the same address, token and nonce burnt on
\* the other side are still stored
C39_Witness ==
    /\ order_result.fn = "remove_mint_order"
    /\ order_result.res = "Ok"
    /\ order_result.task.event.sender_id = Id256FromEvmAddress("alice", 1)
    /\ StoredUnder(mint_orders, MintedKey(order_result.task)) = 0
    /\ StoredUnder(mint_orders,
           <<Id256FromEvmAddress("alice", 2), Id256FromEvmAddress("tokenA", 2), 1>>) = 1
    /\ \E en \in BagToSet(mint_orders) :
          /\ en.sender = Id256FromEvmAddress("alice", 1)
          /\ KeyOf(en) # MintedKey(order_result.task)

(***************************************************************************)
(* Deposits with approval data: the handlers of the minter with every      *)
(* notification, those that ask for an approval after the mint included    *)
(***************************************************************************)
NextApprove ==
    \/ \E burnt \in BurntEvents : TaskByLogBurnt(burnt)
    \/ \E notification \in Notifications : TaskByLogNotify(notification)
    \/ \E t \in BagToSet(tasks) : BurnIcrc2TokensBegin(t)
    \/ \E e \in BagToSet(execs) : BurnIcrc2TokensBurn(e)
    \/ \E t \in BagToSet(tasks) : PrepareMintOrderBegin(t)
    \/ \E e \in BagToSet(execs) : PrepareMintOrderSigned(e)
    \/ \E e \in BagToSet(execs) : PrepareMintOrderParams(e)
    \/ \E t \in BagToSet(tasks) : SendMintTransactionBegin(t)
    \/ \E e \in BagToSet(execs) : SendMintTransactionSend(e)
    \/ \E t \in BagToSet(tasks) : MintIcrc2Begin(t)
    \/ \E e \in BagToSet(execs) : MintIcrc2Mint(e)

SpecApprove == Init /\ [][NextApprove]_vars

\* the stages in which the operation holds a signed mint order
HoldsSignedOrder(st) ==
    st.stage \in {"MintOrderSigned", "MintOrderSent",
                  "RefundMintOrderSigned", "RefundMintOrderSent"}

\* C34: the deposit that task_by_log creates from a notification has the
\* approval data of the notification if the sender of the notifying
\* transaction is the recipient address of the burn, and none otherwise; an
\* operation never gains approval data later and no operation of another
\* origin has any, so a mint order with approval parameters is signed only
\* for a recipient wallet that sent the notification itself.
C34_ApproveOnlyForOwnWallet ==
    [][/\ \A notification \in Notifications :
            TaskByLogNotify(notification) =>
                LET created == op_store'[Len(op_store) + 1] IN
                /\ created.address = notification.user_data.recipient_address
                /\ created.state.approve_after_mint =
                      (/\ notification.user_data.approve_after_mint
                       /\ notification.tx_sender = notification.user_data.recipient_address)
       /\ \A burnt \in BurntEvents :
            TaskByLogBurnt(burnt) => ~op_store'[Len(op_store) + 1].state.approve_after_mint
       /\ \A n \in DOMAIN op_store :
            /\ op_store'[n].state.approve_after_mint => op_store[n].state.approve_after_mint
            /\ (HoldsSignedOrder(op_store'[n].state) /\ op_store[n].state.family = "Deposit")
                  => op_store'[n].state.approve_after_mint = op_store[n].state.approve_after_mint
            /\ op_store[n].state.family = "Withdrawal" => ~op_store[n].state.approve_after_mint]_vars

\* C34 witness: one deposit to the wallet of alice holds a signed mint order
\* with approval parameters, and another, whose order has been sent, holds an
\* order without any
C34_Witness ==
    \E n, m \in DOMAIN op_store :
        /\ op_store[n].state.stage = "MintOrderSigned"
        /\ op_store[n].state.approve_after_mint
        /\ op_store[m].state.stage = "MintOrderSent"
        /\ ~op_store[m].state.approve_after_mint

====
